---- MODULE Spec2Model ----
(***************************************************************************)
(* Bounds matching between rendered components and Figma nodes.            *)
(*                                                                         *)
(*   - figmaService.ts (src/unnamed/part_000): matchComponentsToNodes      *)
(*     returns, per component, the top three candidates (non-exclusive).   *)
(*   - services/figma.ts: matchComponentsToNodes picks one node per        *)
(*     component and removes it from the pool (exclusive, greedy).         *)
(*                                                                         *)
(* Strings are sequences of one-character strings, so that toLowerCase,    *)
(* trim, includes and split are computed and not assumed.  JavaScript      *)
(* numbers are exact rationals [n, d]; 0/0 is NaN, written [n=0, d=0].     *)
(***************************************************************************)
EXTENDS Integers, Sequences, FiniteSets, TLC

VARIABLES
  service,              \* which matcher runs: "figmaService" (figmaService.ts) or "figma" (figma.ts)
  componentBounds,      \* input: ComponentBounds[]
  figmaComponents,      \* input: ComponentAnalysis[] / FigmaNodeBounds[]
  pc,                   \* position in the running call
  ci,                   \* index of the next component of `for (const component of componentBounds)`
  componentMatches,     \* figmaService.ts: ComponentMatchCandidates[]
  matches,              \* figma.ts: NodeMatchResult[]
  unmatchedComponents,  \* indices (into componentBounds) of the unmatched components
  unmatchedNodes,       \* the pool / the nodes left over
  overall,              \* overallConfidence (figmaService.ts) / overallScore (figma.ts)
  matchResult,          \* result of one calculateNodeMatch call (scoring runs)
  call,                 \* number of the running call (repeated calls)
  firstResult,          \* what the first call returned
  boundsMatchingResults, \* edit.tsx: the page's copy of the matching result, <<>> for null
  selectedComponentId,  \* edit.tsx: the selected component's name, <<>> for null
  clusters,             \* semanticGroupingService.ts: what findSpatialClusters returned
  alignments,           \* what findVerticalAlignments / findHorizontalAlignments returned
  sortedByY,            \* identifyVerticalSections: the components sorted by bounds.y
  si,                   \* identifyVerticalSections: i of `for (let i = 0; ...)`, counted from 1
  currentSection,       \* identifyVerticalSections: the section being filled
  sections,             \* identifyVerticalSections: the sections closed so far
  reply,                \* groupComponents: what the classifier call yields
  groups,               \* validateAndEnhanceResult: SemanticGroup[]
  availableComponents,  \* autoMapComponentsToGroups: the pool
  gi,                   \* autoMapComponentsToGroups: index of the next group of groups.forEach
  groupingResult        \* what groupComponents returned

vars == <<service, componentBounds, figmaComponents, pc, ci, componentMatches, matches,
          unmatchedComponents, unmatchedNodes, overall, matchResult, call, firstResult,
          boundsMatchingResults, selectedComponentId,
          clusters, alignments, sortedByY, si, currentSection, sections,
          reply, groups, availableComponents, gi, groupingResult>>

\* the state of the layout analysis and of the grouping call
spatialVars == <<clusters, alignments, sortedByY, si, currentSection, sections>>
groupingVars == <<reply, groups, availableComponents, gi, groupingResult>>

panelVars == <<boundsMatchingResults, selectedComponentId>>

\* useState(null) of both
PanelIdle ==
  /\ boundsMatchingResults = <<>>
  /\ selectedComponentId = <<>>

\* no layout analysis and no grouping call is running
SpatialIdle ==
  /\ clusters = <<>>
  /\ alignments = <<>>
  /\ sortedByY = <<>>
  /\ si = 1
  /\ currentSection = <<>>
  /\ sections = <<>>

GroupingIdle ==
  /\ reply = <<>>
  /\ groups = <<>>
  /\ availableComponents = <<>>
  /\ gi = 1
  /\ groupingResult = <<>>

----------------------------------------------------------------------------
(* JavaScript numbers: the arithmetic of the language itself *)

RECURSIVE GCD(_, _)
GCD(a, b) == IF b = 0 THEN a ELSE GCD(b, a % b)

Abs(x) == IF x < 0 THEN -x ELSE x

NaN == [n |-> 0, d |-> 0]

IsNaN(x) == x.d = 0

\* the rational a/b in lowest terms; 0/0 is NaN as in JavaScript
Div(a, b) ==
  IF b = 0 THEN NaN
  ELSE LET g == GCD(Abs(a), Abs(b))
           s == IF b < 0 THEN -1 ELSE 1
       IN  [n |-> s * (a \div g), d |-> s * (b \div g)]

Num(k) == [n |-> k, d |-> 1]

Add(x, y) == IF IsNaN(x) \/ IsNaN(y) THEN NaN ELSE Div(x.n * y.d + y.n * x.d, x.d * y.d)

Mul(x, y) == IF IsNaN(x) \/ IsNaN(y) THEN NaN ELSE Div(x.n * y.n, x.d * y.d)

Quot(x, y) == IF IsNaN(x) \/ IsNaN(y) THEN NaN ELSE Div(x.n * y.d, x.d * y.n)

\* x > y; false when either side is NaN
Gt(x, y) == ~IsNaN(x) /\ ~IsNaN(y) /\ x.n * y.d > y.n * x.d

Ge(x, y) == ~IsNaN(x) /\ ~IsNaN(y) /\ x.n * y.d >= y.n * x.d

\* Math.min, Math.max: NaN when either argument is NaN
MathMin(x, y) == IF IsNaN(x) \/ IsNaN(y) THEN NaN ELSE IF Gt(x, y) THEN y ELSE x

MathMax(x, y) == IF IsNaN(x) \/ IsNaN(y) THEN NaN ELSE IF Gt(y, x) THEN y ELSE x

IntMin(a, b) == IF a < b THEN a ELSE b

IntMax(a, b) == IF a > b THEN a ELSE b

----------------------------------------------------------------------------
(* JavaScript strings and arrays: the built-in methods the services call *)

UpperChars == <<"A","B","C","D","E","F","G","H","I","J","K","L","M",
                "N","O","P","Q","R","S","T","U","V","W","X","Y","Z">>

LowerChars == <<"a","b","c","d","e","f","g","h","i","j","k","l","m",
                "n","o","p","q","r","s","t","u","v","w","x","y","z">>

Digits == {"0","1","2","3","4","5","6","7","8","9"}

\* the lower-case letter of each upper-case letter
LowerOf ==
  [c \in {UpperChars[i] : i \in 1..Len(UpperChars)} |->
     LowerChars[CHOOSE i \in 1..Len(UpperChars) : UpperChars[i] = c]]

LowerChar(c) == IF c \in DOMAIN LowerOf THEN LowerOf[c] ELSE c

toLowerCase(s) == [i \in 1..Len(s) |-> LowerChar(s[i])]

IsSpace(c) == c \in {" ", "\t", "\n"}

RECURSIVE TrimLeft(_)
TrimLeft(s) == IF s # <<>> /\ IsSpace(Head(s)) THEN TrimLeft(Tail(s)) ELSE s

RECURSIVE TrimRight(_)
TrimRight(s) ==
  IF s # <<>> /\ IsSpace(s[Len(s)]) THEN TrimRight(SubSeq(s, 1, Len(s) - 1)) ELSE s

trim(s) == TrimRight(TrimLeft(s))

\* String.prototype.includes: t occurs in s as a contiguous run
includes(s, t) ==
  \E i \in 0..(Len(s) - Len(t)) : \A j \in 1..Len(t) : s[i + j] = t[j]

\* Array.prototype.includes
arrayIncludes(arr, w) == \E i \in 1..Len(arr) : arr[i] = w

\* s.split(/\s+/): the pieces between maximal runs of whitespace
RECURSIVE SplitWs(_, _)
SplitWs(s, cur) ==
  IF s = <<>> THEN <<cur>>
  ELSE IF IsSpace(Head(s)) THEN <<cur>> \o SplitWs(TrimLeft(s), <<>>)
  ELSE SplitWs(Tail(s), Append(cur, Head(s)))

splitWhitespace(s) == SplitWs(s, <<>>)

AlnumChars == Digits \cup {LowerChars[i] : i \in 1..Len(LowerChars)}

IsAlnum(c) == c \in AlnumChars

\* s.split(/[^a-z0-9]/): every single other character separates two pieces
RECURSIVE SplitNonAlnum(_, _)
SplitNonAlnum(s, cur) ==
  IF s = <<>> THEN <<cur>>
  ELSE IF IsAlnum(Head(s)) THEN SplitNonAlnum(Tail(s), Append(cur, Head(s)))
  ELSE <<cur>> \o SplitNonAlnum(Tail(s), <<>>)

splitKeywords(s) == SplitNonAlnum(s, <<>>)

\* arr.filter(...).length, given for each element whether the filter keeps it
filterLength(kept) == Cardinality({i \in 1..Len(kept) : kept[i]})

----------------------------------------------------------------------------
(* Data *)

\* the literals the scoring code compares against
kwButton == <<"b","u","t","t","o","n">>
kwCard == <<"c","a","r","d">>
kwText == <<"t","e","x","t">>
kwImage == <<"i","m","a","g","e">>
tyInstance == <<"i","n","s","t","a","n","c","e">>
tyFrame == <<"f","r","a","m","e">>
tyRectangle == <<"r","e","c","t","a","n","g","l","e">>

\* node.properties.effects / strokes / cornerRadius: any value but undefined
\* (and, for the number, 0) is truthy; an empty array is truthy
Truthy(v) == v \notin {"undefined", "0"}

\* ComponentBounds.element is optional
NoElement ==
  [present |-> FALSE, textContent |-> <<>>, borderRadius |-> 0,
   backgroundColor |-> "transparent", boxShadow |-> "none", border |-> "none"]

----------------------------------------------------------------------------
(* figmaService.ts: scoring of one (component, node) pair *)

\* calculateTextScore
calculateTextScore(component, node) ==
  IF ~component.element.present THEN Num(0)
  ELSE
    LET componentText == trim(toLowerCase(component.element.textContent))
        nodeText == trim(toLowerCase(node.name))
    IN  IF componentText = <<>> \/ nodeText = <<>> THEN Num(0)
        ELSE IF componentText = nodeText THEN Num(40)
        ELSE IF includes(componentText, nodeText) \/ includes(nodeText, componentText)
             THEN Num(30)
        ELSE
          LET componentWords == splitWhitespace(componentText)
              nodeWords == splitWhitespace(nodeText)
              Matching(word) ==
                \E k \in 1..Len(nodeWords) :
                  includes(word, nodeWords[k]) \/ includes(nodeWords[k], word)
              matchingWords ==
                filterLength([i \in 1..Len(componentWords) |-> Matching(componentWords[i])])
          IN  IF matchingWords > 0
              THEN MathMin(Mul(Div(matchingWords, Len(componentWords)), Num(25)), Num(25))
              ELSE Num(0)

\* calculateVisualScore
calculateVisualScore(component, node) ==
  IF ~component.element.present THEN 0
  ELSE
    LET style == component.element
    IN  (IF style.borderRadius > 0 /\ Truthy(node.cornerRadius) THEN 5 ELSE 0)
      + (IF style.backgroundColor \notin {"rgba(0, 0, 0, 0)", "transparent"} THEN 5 ELSE 0)
      + (IF style.boxShadow # "none" /\ Truthy(node.effects) THEN 5 ELSE 0)
      + (IF style.border # "none" /\ Truthy(node.strokes) THEN 5 ELSE 0)

\* calculateSizeScore (the same text in figma.ts:301-306)
calculateSizeScore(component, node) ==
  LET widthRatio == Div(IntMin(component.width, node.width),
                        IntMax(component.width, node.width))
      heightRatio == Div(IntMin(component.height, node.height),
                         IntMax(component.height, node.height))
      averageRatio == Quot(Add(widthRatio, heightRatio), Num(2))
  IN  Mul(averageRatio, Num(40))

\* mutant: the first node of the document is favoured
calculateTypeScoreByIdentity(component, node) ==
  IF node.id = 1 THEN 20 ELSE 5

\* calculateTypeScore (the same text in figma.ts:335-349)
calculateTypeScore(component, node) ==
  LET nodeType == toLowerCase(node.type)
      componentName == toLowerCase(component.name)
  IN  IF includes(componentName, kwButton) /\ nodeType = tyInstance THEN 20
      ELSE IF includes(componentName, kwCard) /\ nodeType = tyFrame THEN 15
      ELSE IF includes(componentName, kwText) /\ nodeType = kwText THEN 20
      ELSE IF includes(componentName, kwImage) /\ nodeType = tyRectangle THEN 15
      ELSE IF nodeType = tyFrame \/ nodeType = tyInstance THEN 10
      ELSE 5

\* confidence = Math.min(matchScore, 100)
toConfidence(matchScore) == MathMin(matchScore, Num(100))

\* mutant: the boundaries taken with >= instead of >
toMatchTypeInclusive(confidence) ==
  IF Ge(confidence, Num(80)) THEN "exact"
  ELSE IF Ge(confidence, Num(60)) THEN "partial"
  ELSE "approximate"

\* the if / else-if chain on confidence
toMatchType(confidence) ==
  IF Gt(confidence, Num(80)) THEN "exact"
  ELSE IF Gt(confidence, Num(60)) THEN "partial"
  ELSE "approximate"

\* mutant: a size score at break-even is also given as a reason
calculateNodeMatchSizeInclusive(cidx, component, node) ==
  LET textScore == calculateTextScore(component, node)
      typeScore == calculateTypeScore(component, node)
      visualScore == calculateVisualScore(component, node)
      sizeScore == Mul(calculateSizeScore(component, node), Div(1, 4))
      matchScore == Add(Add(Add(textScore, Num(typeScore)), Num(visualScore)), sizeScore)
      textMatch == Gt(textScore, Num(20))
      typeMatch == typeScore > 15
      colorMatch == visualScore > 10
      confidence == toConfidence(matchScore)
  IN  [figmaNode |-> node,
       componentBounds |-> cidx,
       matchScore |-> matchScore,
       confidence |-> confidence,
       matchType |-> toMatchType(confidence),
       reasons |-> (IF textMatch THEN <<"Similar text content">> ELSE <<>>)
                \o (IF typeMatch THEN <<"Similar type">> ELSE <<>>)
                \o (IF colorMatch THEN <<"Similar visual features">> ELSE <<>>)
                \o (IF Ge(sizeScore, Num(5)) THEN <<"Similar size">> ELSE <<>>),
       textMatch |-> textMatch,
       colorMatch |-> colorMatch,
       typeMatch |-> typeMatch]

\* calculateNodeMatch; component is the index of the component in componentBounds
calculateNodeMatch(cidx, component, node) ==
  LET textScore == calculateTextScore(component, node)
      typeScore == calculateTypeScore(component, node)
      visualScore == calculateVisualScore(component, node)
      sizeScore == Mul(calculateSizeScore(component, node), Div(1, 4))
      matchScore == Add(Add(Add(textScore, Num(typeScore)), Num(visualScore)), sizeScore)
      textMatch == Gt(textScore, Num(20))
      typeMatch == typeScore > 15
      colorMatch == visualScore > 10
      confidence == toConfidence(matchScore)
  IN  [figmaNode |-> node,
       componentBounds |-> cidx,
       matchScore |-> matchScore,
       confidence |-> confidence,
       matchType |-> toMatchType(confidence),
       reasons |-> (IF textMatch THEN <<"Similar text content">> ELSE <<>>)
                \o (IF typeMatch THEN <<"Similar type">> ELSE <<>>)
                \o (IF colorMatch THEN <<"Similar visual features">> ELSE <<>>)
                \o (IF Gt(sizeScore, Num(5)) THEN <<"Similar size">> ELSE <<>>),
       textMatch |-> textMatch,
       colorMatch |-> colorMatch,
       typeMatch |-> typeMatch]

----------------------------------------------------------------------------
(* Inputs of the scoring runs *)

Sample(w) ==
  CASE w = "Button" -> <<"B","u","t","t","o","n">>
    [] w = "Card" -> <<"C","a","r","d">>
    [] w = "Icon" -> <<"I","c","o","n">>
    [] w = "TextLabel" -> <<"T","e","x","t","L","a","b","e","l">>
    [] w = "ImageBox" -> <<"I","m","a","g","e","B","o","x">>
    [] w = "OK" -> <<"O","K">>
    [] w = "OkLower" -> <<"o","k">>
    [] w = "OkGo" -> <<"o","k"," ","g","o">>
    [] w = "GoUp" -> <<" ","g","o"," ","u","p">>
    [] w = "Blank" -> <<" ">>
    [] w = "X" -> <<"x">>
    [] w = "Header" -> <<"H","e","a","d","e","r">>
    [] w = "Footer" -> <<"F","o","o","t","e","r">>
    [] w = "OkButton" -> <<"O","K"," ","B","u","t","t","o","n">>
    [] w = "TextSection" -> <<"T","e","x","t"," ","S","e","c","t","i","o","n">>
    [] w = "SubmitButton" -> <<"S","u","b","m","i","t"," ","B","u","t","t","o","n">>
    [] w = "Submit" -> <<"S","u","b","m","i","t">>
    [] w = "HeaderSection" -> <<"H","e","a","d","e","r"," ","S","e","c","t","i","o","n">>
FigmaType(w) ==
  CASE w = "Instance" -> <<"I","N","S","T","A","N","C","E">>
    [] w = "Frame" -> <<"F","R","A","M","E">>
    [] w = "Text" -> <<"T","E","X","T">>
    [] w = "Rectangle" -> <<"R","E","C","T","A","N","G","L","E">>
    [] w = "Group" -> <<"G","R","O","U","P">>
    [] w = "Button" -> <<"B","U","T","T","O","N">>

ComponentNames == {Sample("Button"), Sample("Card"), Sample("Icon"), Sample("TextLabel"), Sample("ImageBox")}
ComponentTexts == {Sample("OK"), Sample("GoUp"), Sample("Blank")}
NodeNames == {Sample("OkLower"), Sample("OkGo"), Sample("X")}
NodeTypes == {FigmaType("Instance"), FigmaType("Frame"), FigmaType("Text"), FigmaType("Rectangle")}

\* (width, height) pairs: equal, halved, zero on one side, zero on both
Sizes == {<<0, 0>>, <<0, 4>>, <<2, 4>>, <<4, 4>>}

\* computed styles: nothing, a background, a rounded background, everything
Styles ==
  { [borderRadius |-> 0, backgroundColor |-> "rgba(0, 0, 0, 0)", boxShadow |-> "none", border |-> "none"],
    [borderRadius |-> 0, backgroundColor |-> "rgb(255, 255, 255)", boxShadow |-> "none", border |-> "none"],
    [borderRadius |-> 4, backgroundColor |-> "rgb(255, 255, 255)", boxShadow |-> "none", border |-> "none"],
    [borderRadius |-> 4, backgroundColor |-> "rgb(255, 255, 255)", boxShadow |-> "0px 1px 2px", border |-> "1px solid"] }

Element(text, style) ==
  [present |-> TRUE, textContent |-> text, borderRadius |-> style.borderRadius,
   backgroundColor |-> style.backgroundColor, boxShadow |-> style.boxShadow,
   border |-> style.border]

Elements == {NoElement} \cup {Element(t, st) : t \in ComponentTexts, st \in Styles}

Component(name, size, element) ==
  [name |-> name, x |-> 0, y |-> 0, width |-> size[1], height |-> size[2],
   element |-> element]

\* node.properties as the design file declares them
NodeProperties ==
  { [cornerRadius |-> "undefined", fills |-> "undefined", effects |-> "undefined", strokes |-> "undefined"],
    [cornerRadius |-> "8", fills |-> "[fill]", effects |-> "undefined", strokes |-> "undefined"],
    [cornerRadius |-> "8", fills |-> "[fill]", effects |-> "[shadow]", strokes |-> "[stroke]"] }

Node(id, name, type, pos, size, props) ==
  [id |-> id, name |-> name, type |-> type, x |-> pos[1], y |-> pos[2],
   width |-> size[1], height |-> size[2], cornerRadius |-> props.cornerRadius,
   fills |-> props.fills, effects |-> props.effects, strokes |-> props.strokes]

ScoreComponents ==
  {Component(nm, sz, el) : nm \in ComponentNames, sz \in Sizes, el \in Elements}

ScoreNodes ==
  {Node(1, nm, ty, <<0, 0>>, sz, pr) :
     nm \in NodeNames, ty \in NodeTypes, sz \in Sizes, pr \in NodeProperties}

\* the pair of the submit-button scenario: a component 120 x 40 named Submit
\* Button, without element or with an element whose text is the name or its
\* first word, and an instance 118 x 42 of that name
SubmitScenario ==
  { <<Component(Sample("SubmitButton"), <<120, 40>>, el),
      Node(1, Sample("SubmitButton"), FigmaType("Instance"), <<0, 0>>, <<118, 42>>, pr)>> :
      el \in {NoElement}
               \cup {Element(t, st) : t \in {Sample("SubmitButton"), Sample("Submit")},
                                      st \in Styles},
      pr \in NodeProperties
               \cup {[cornerRadius |-> "undefined", fills |-> "undefined", effects |-> "[shadow]",
                      strokes |-> "[stroke]"]} }

----------------------------------------------------------------------------
(* One scoring call: calculateNodeMatch(component, node) *)

InitScore ==
  /\ service = "figmaService"
  /\ \E pair \in (ScoreComponents \X ScoreNodes) \cup SubmitScenario :
       /\ componentBounds = <<pair[1]>>
       /\ figmaComponents = <<pair[2]>>
  /\ pc = "score"
  /\ ci = 1
  /\ componentMatches = <<>>
  /\ matches = <<>>
  /\ unmatchedComponents = <<>>
  /\ unmatchedNodes = <<>>
  /\ overall = Num(0)
  /\ matchResult = <<>>
  /\ call = 1
  /\ firstResult = <<>>
  /\ PanelIdle
  /\ SpatialIdle
  /\ GroupingIdle

ScorePair ==
  /\ pc = "score"
  /\ matchResult' = <<calculateNodeMatch(1, componentBounds[1], figmaComponents[1])>>
  /\ pc' = "scored"
  /\ UNCHANGED <<service, componentBounds, figmaComponents, ci, componentMatches, matches,
                 unmatchedComponents, unmatchedNodes, overall, call, firstResult>>
  /\ UNCHANGED <<spatialVars, groupingVars, panelVars>>

NextScore == ScorePair

SpecScore == InitScore /\ [][NextScore]_vars

----------------------------------------------------------------------------
(* Inputs of the matching runs *)

MaxComponents == 2
MaxNodes == 4

\* sequences over S of length 0..n
SeqsUpTo(S, n) == UNION {[1..k -> S] : k \in 0..n}

\* node ids are unique within one document: the k-th node has id k
WithIds(nodes) == [k \in 1..Len(nodes) |-> [nodes[k] EXCEPT !.id = k]]

MatchComponents ==
  { Component(<<"B","u","t","t","o","n">>, <<4, 4>>, Element(<<"O","K">>, CHOOSE st \in Styles : st.boxShadow # "none")),
    Component(<<"C","a","r","d">>, <<2, 4>>, Element(<<" ","g","o"," ","u","p">>, CHOOSE st \in Styles : st.borderRadius = 0 /\ st.backgroundColor # "rgba(0, 0, 0, 0)")),
    Component(<<"I","c","o","n">>, <<0, 0>>, NoElement) }

MatchNodes ==
  { Node(0, <<"o","k">>, <<"I","N","S","T","A","N","C","E">>, <<0, 0>>, <<4, 4>>, CHOOSE pr \in NodeProperties : pr.effects # "undefined"),
    Node(0, <<"o","k"," ","g","o">>, <<"F","R","A","M","E">>, <<0, 0>>, <<0, 0>>, CHOOSE pr \in NodeProperties : pr.cornerRadius = "undefined"),
    Node(0, <<"o","k"," ","g","o">>, <<"F","R","A","M","E">>, <<4, 4>>, <<2, 4>>, CHOOSE pr \in NodeProperties : pr.cornerRadius = "undefined"),
    Node(0, <<"x">>, <<"R","E","C","T","A","N","G","L","E">>, <<0, 0>>, <<2, 4>>, CHOOSE pr \in NodeProperties : pr.cornerRadius = "undefined") }

\* extractComponentBounds names every rendered element by its kind: two cards
\* on one page are two entries called alike, with bounds of their own
PanelComponents ==
  MatchComponents \cup {Component(<<"C","a","r","d">>, <<4, 4>>, NoElement)}

\* rendered components and design nodes of positive width and height, among
\* them a pair alike in nothing: sizes 4x4 and 1x1, 1200 px apart, names
\* without a common word, a node type that scores 5
PositiveComponents ==
  {c \in MatchComponents : c.width > 0 /\ c.height > 0}
    \cup {Component(<<"I","c","o","n">>, <<4, 4>>, NoElement)}

PositiveNodes ==
  {n \in MatchNodes : n.width > 0 /\ n.height > 0}
    \cup {Node(0, <<"x">>, <<"R","E","C","T","A","N","G","L","E">>, <<1200, 0>>, <<1, 1>>,
                CHOOSE pr \in NodeProperties : pr.cornerRadius = "undefined")}

\* calculateNodeMatch reads neither the node's id nor the component's place in
\* the list; the results for the inputs above are computed once and the two
\* fields filled in per call
scoreTable ==
  [c \in PanelComponents |-> [n \in MatchNodes |-> calculateNodeMatch(0, c, n)]]

\* calculateNodeMatch(component, node) of figmaService.ts for a pair of the inputs
scorePair(cidx, component, node) ==
  [scoreTable[component][[node EXCEPT !.id = 0]] EXCEPT !.figmaNode = node,
                                                       !.componentBounds = cidx]

----------------------------------------------------------------------------
(* figmaService.ts: matchComponentsToNodes (top three candidates per component) *)

\* mutant: a component is scored against what is left in unmatchedNodes
candidatePoolLeftOver(figmaNodes) == unmatchedNodes

\* `for (const node of figmaComponents)`: the nodes one component is scored against
candidatePool(figmaNodes) == figmaNodes

\* mutant: `confidence >= 20`
isRelevantInclusive(result) == Ge(result.confidence, Num(20))

\* `if (matchResult.confidence > 20)`
isRelevant(result) == Gt(result.confidence, Num(20))

\* the inner loop: score every node, keep the relevant results in node order
scoreCandidates(cidx, component, nodes) ==
  SelectSeq([k \in 1..Len(nodes) |-> scorePair(cidx, component, nodes[k])],
            isRelevant)

\* Array.prototype.sort is stable: x goes behind every entry the comparator
\* `b.confidence - a.confidence` does not put behind x
RECURSIVE InsertByConfidence(_, _)
InsertByConfidence(sorted, x) ==
  IF sorted = <<>> THEN <<x>>
  ELSE IF Gt(x.confidence, Head(sorted).confidence) THEN <<x>> \o sorted
  ELSE <<Head(sorted)>> \o InsertByConfidence(Tail(sorted), x)

RECURSIVE SortFrom(_, _)
SortFrom(sorted, rest) ==
  IF rest = <<>> THEN sorted
  ELSE SortFrom(InsertByConfidence(sorted, Head(rest)), Tail(rest))

\* mutant: the sort is left out
sortByConfidenceLeftOut(candidates) == candidates

\* candidates.sort((a, b) => b.confidence - a.confidence)
sortByConfidence(candidates) == SortFrom(<<>>, candidates)

\* mutant: candidates.slice(1, 4)
topCandidatesFromSecond(candidates) == SubSeq(candidates, 2, IntMin(4, Len(candidates)))

\* candidates.slice(0, 3)
topCandidates(candidates) == SubSeq(candidates, 1, IntMin(3, Len(candidates)))

\* unmatchedNodes.findIndex(n => n.id === id); 0 stands for -1
findIndexById(nodes, id) ==
  IF \E k \in 1..Len(nodes) : nodes[k].id = id
  THEN CHOOSE k \in 1..Len(nodes) :
         nodes[k].id = id /\ \A j \in 1..(k - 1) : nodes[j].id # id
  ELSE 0

\* arr.splice(k, 1)
splice(arr, k) == SubSeq(arr, 1, k - 1) \o SubSeq(arr, k + 1, Len(arr))

\* mutant: `if (bestMatchIndex > 0)`, which never removes the first node
removeBestMatchNotFirst(nodes, id) ==
  LET bestMatchIndex == findIndexById(nodes, id)
  IN  IF bestMatchIndex > 1 THEN splice(nodes, bestMatchIndex) ELSE nodes

\* `if (bestMatchIndex > -1) unmatchedNodes.splice(bestMatchIndex, 1)`
removeBestMatch(nodes, id) ==
  LET bestMatchIndex == findIndexById(nodes, id)
  IN  IF bestMatchIndex > 0 THEN splice(nodes, bestMatchIndex) ELSE nodes

RECURSIVE SumTopConfidence(_)
SumTopConfidence(cms) ==
  IF cms = <<>> THEN Num(0)
  ELSE Add(Head(cms).candidates[1].confidence, SumTopConfidence(Tail(cms)))

\* mutant: the sum is divided by the number of components, matched or not
overallConfidenceOverAll(cms) ==
  IF Len(cms) > 0 THEN Quot(SumTopConfidence(cms), Num(Len(componentBounds))) ELSE Num(0)

\* the average of candidates[0].confidence, or 0
overallConfidence(cms) ==
  IF Len(cms) > 0 THEN Quot(SumTopConfidence(cms), Num(Len(cms))) ELSE Num(0)

\* mutant: componentMatches outlives the call and is not cleared
initialComponentMatchesKept == IF pc = "done" THEN componentMatches ELSE <<>>

\* `const componentMatches = []` at the start of a call
initialComponentMatches == <<>>

\* `const unmatchedNodes = [...figmaComponents]` at the start of a call
initialUnmatchedNodes(figmaNodes) == figmaNodes

\* one turn of `for (const component of componentBounds)`
MatchComponent ==
  /\ service = "figmaService"
  /\ pc = "loop"
  /\ ci <= Len(componentBounds)
  /\ LET component == componentBounds[ci]
         candidates == scoreCandidates(ci, component, candidatePool(figmaComponents))
         top == topCandidates(sortByConfidence(candidates))
     IN  IF Len(top) > 0
         THEN /\ componentMatches' =
                   Append(componentMatches, [componentBounds |-> ci, candidates |-> top])
              /\ unmatchedNodes' = removeBestMatch(unmatchedNodes, top[1].figmaNode.id)
              /\ UNCHANGED unmatchedComponents
         ELSE /\ unmatchedComponents' = Append(unmatchedComponents, ci)
              /\ UNCHANGED <<componentMatches, unmatchedNodes>>
  /\ ci' = ci + 1
  /\ UNCHANGED <<service, componentBounds, figmaComponents, pc, matches, overall, matchResult,
                 call, firstResult>>
  /\ UNCHANGED <<spatialVars, groupingVars, panelVars>>

\* the loop is over: compute overallConfidence and return
MatchReturn ==
  /\ service = "figmaService"
  /\ pc = "loop"
  /\ ci > Len(componentBounds)
  /\ overall' = overallConfidence(componentMatches)
  /\ pc' = "done"
  /\ UNCHANGED <<service, componentBounds, figmaComponents, ci, componentMatches, matches,
                 unmatchedComponents, unmatchedNodes, matchResult, call, firstResult>>
  /\ UNCHANGED <<spatialVars, groupingVars, panelVars>>

\* what a call returns
returned ==
  [componentMatches |-> componentMatches, unmatchedComponents |-> unmatchedComponents,
   unmatchedNodes |-> unmatchedNodes, overallConfidence |-> overall]

\* the caller calls matchComponentsToNodes again with the same two lists
MatchAgain ==
  /\ service = "figmaService"
  /\ pc = "done"
  /\ call = 1
  /\ firstResult' = <<returned>>
  /\ call' = 2
  /\ componentMatches' = initialComponentMatches
  /\ unmatchedComponents' = <<>>
  /\ unmatchedNodes' = initialUnmatchedNodes(figmaComponents)
  /\ ci' = 1
  /\ pc' = "loop"
  /\ UNCHANGED <<service, componentBounds, figmaComponents, matches, overall, matchResult>>
  /\ UNCHANGED <<spatialVars, groupingVars, panelVars>>

\* the state at the first turn of the loop of either matcher
InitMatch ==
  /\ service \in {"figmaService", "figma"}
  /\ componentBounds \in SeqsUpTo(MatchComponents, MaxComponents)
  /\ figmaComponents \in {WithIds(ns) : ns \in SeqsUpTo(MatchNodes, MaxNodes)}
  /\ pc = "loop"
  /\ ci = 1
  /\ componentMatches = initialComponentMatches
  /\ matches = <<>>
  /\ unmatchedComponents = <<>>
  /\ unmatchedNodes = initialUnmatchedNodes(figmaComponents)
  /\ overall = Num(0)
  /\ matchResult = <<>>
  /\ call = 1
  /\ firstResult = <<>>
  /\ PanelIdle
  /\ SpatialIdle
  /\ GroupingIdle

InitTopK == InitMatch /\ service = "figmaService"

InitGreedy == InitMatch /\ service = "figma"

NextTopK == MatchComponent \/ MatchReturn \/ MatchAgain

SpecTopK == InitTopK /\ [][NextTopK]_vars

----------------------------------------------------------------------------
(* figma.ts: scoring and matchComponentsToNodes (one node per component) *)

\* calculatePositionScore
calculatePositionScore(component, node) ==
  LET xDiff == Abs(component.x - node.x)
      yDiff == Abs(component.y - node.y)
      maxDiff == IntMax(xDiff, yDiff)
  IN  MathMax(Num(0), Add(Num(20), Div(-maxDiff, 50)))

\* calculateNameScore
calculateNameScore(component, node) ==
  LET componentName == toLowerCase(component.name)
      nodeName == toLowerCase(node.name)
  IN  IF componentName = nodeName THEN 20
      ELSE IF includes(componentName, nodeName) \/ includes(nodeName, componentName) THEN 15
      ELSE
        LET componentKeywords == splitKeywords(componentName)
            nodeKeywords == splitKeywords(nodeName)
            InNode(k) == arrayIncludes(nodeKeywords, k)
            matchCount ==
              filterLength([i \in 1..Len(componentKeywords) |-> InNode(componentKeywords[i])])
        IN  IntMin(matchCount * 3, 10)

\* calculateNodeMatch of figma.ts
calculateNodeMatchGreedy(cidx, component, node) ==
  LET sizeScore == calculateSizeScore(component, node)
      positionScore == calculatePositionScore(component, node)
      nameScore == calculateNameScore(component, node)
      typeScore == calculateTypeScore(component, node)
      matchScore == Add(Add(Add(sizeScore, Mul(positionScore, Div(1, 2))),
                            Num(nameScore)), Num(typeScore))
      bucket == IF Gt(matchScore, Num(80)) THEN <<"exact", 95>>
                ELSE IF Gt(matchScore, Num(60)) THEN <<"partial", 80>>
                ELSE IF Gt(matchScore, Num(30)) THEN <<"approximate", 60>>
                ELSE <<"approximate", 30>>
  IN  [figmaNode |-> node,
       componentBounds |-> cidx,
       matchScore |-> matchScore,
       confidence |-> Num(bucket[2]),
       matchType |-> bucket[1],
       reasons |-> (IF Gt(sizeScore, Num(30)) THEN <<"Similar size">> ELSE <<>>)
                \o (IF Gt(positionScore, Num(15)) THEN <<"Similar position">> ELSE <<>>)
                \o (IF nameScore > 10 THEN <<"Similar name">> ELSE <<>>)
                \o (IF typeScore > 10 THEN <<"Similar type">> ELSE <<>>)]

\* as scoreTable, for figma.ts
greedyScoreTable ==
  [c \in MatchComponents \cup PositiveComponents |->
     [n \in MatchNodes \cup PositiveNodes |-> calculateNodeMatchGreedy(0, c, n)]]

\* calculateNodeMatch(component, node) of figma.ts for a pair of the inputs
greedyScorePair(cidx, component, node) ==
  [greedyScoreTable[component][[node EXCEPT !.id = 0]] EXCEPT !.figmaNode = node,
                                                             !.componentBounds = cidx]

\* mutant: the threshold on the scale of the scores, `matchScore > 30`
isAcceptableAboveThirty(result) == Gt(result.matchScore, Num(30))

\* `matchResult.matchScore > 0.3`
isAcceptable(result) == Gt(result.matchScore, Div(3, 10))

\* mutant: `matchResult.matchScore >= bestMatch.matchScore`
beatsBestMatchOnTie(result, bestMatch) == Ge(result.matchScore, bestMatch.matchScore)

\* `matchResult.matchScore > bestMatch.matchScore`
beatsBestMatch(result, bestMatch) == Gt(result.matchScore, bestMatch.matchScore)

\* the inner loop over unmatchedNodes, results[i] being the matchResult of
\* node i: bestMatchIndex after node i, given the index best so far (0 stands
\* for no bestMatch)
RECURSIVE BestFrom(_, _, _)
BestFrom(results, i, best) ==
  IF i > Len(results) THEN best
  ELSE
    LET better ==
          /\ isAcceptable(results[i])
          /\ \/ best = 0
             \/ beatsBestMatch(results[i], results[best])
    IN  BestFrom(results, i + 1, IF better THEN i ELSE best)

bestMatchIndex(results) == BestFrom(results, 1, 0)

\* mutant: the chosen node stays in the pool
removeChosenLeftOut(pool, k) == pool

\* `unmatchedNodes.splice(bestMatchIndex, 1)` after a match
removeChosen(pool, k) == splice(pool, k)

RECURSIVE SumMatchScore(_)
SumMatchScore(ms) ==
  IF ms = <<>> THEN Num(0) ELSE Add(Head(ms).matchScore, SumMatchScore(Tail(ms)))

\* the average of matchScore over matches, or 0
overallScore(ms) ==
  IF Len(ms) > 0 THEN Quot(SumMatchScore(ms), Num(Len(ms))) ELSE Num(0)

\* one turn of `for (const component of componentBounds)`
GreedyComponent ==
  /\ service = "figma"
  /\ pc = "loop"
  /\ ci <= Len(componentBounds)
  /\ LET component == componentBounds[ci]
         results == [i \in 1..Len(unmatchedNodes) |->
                       greedyScorePair(ci, component, unmatchedNodes[i])]
         k == bestMatchIndex(results)
     IN  IF k > 0
         THEN /\ matches' = Append(matches, results[k])
              /\ unmatchedNodes' = removeChosen(unmatchedNodes, k)
              /\ UNCHANGED unmatchedComponents
         ELSE /\ unmatchedComponents' = Append(unmatchedComponents, ci)
              /\ UNCHANGED <<matches, unmatchedNodes>>
  /\ ci' = ci + 1
  /\ UNCHANGED <<service, componentBounds, figmaComponents, pc, componentMatches, overall,
                 matchResult, call, firstResult>>
  /\ UNCHANGED <<spatialVars, groupingVars, panelVars>>

\* the loop is over: compute overallScore and return
GreedyReturn ==
  /\ service = "figma"
  /\ pc = "loop"
  /\ ci > Len(componentBounds)
  /\ overall' = overallScore(matches)
  /\ pc' = "done"
  /\ UNCHANGED <<service, componentBounds, figmaComponents, ci, componentMatches, matches,
                 unmatchedComponents, unmatchedNodes, matchResult, call, firstResult>>
  /\ UNCHANGED <<spatialVars, groupingVars, panelVars>>

NextGreedy == GreedyComponent \/ GreedyReturn

SpecGreedy == InitGreedy /\ [][NextGreedy]_vars

MaxPositiveComponents == 2
MaxPositiveNodes == 2

InitGreedyPositive ==
  /\ service = "figma"
  /\ componentBounds \in SeqsUpTo(PositiveComponents, MaxPositiveComponents)
  /\ figmaComponents \in {WithIds(ns) : ns \in SeqsUpTo(PositiveNodes, MaxPositiveNodes)}
  /\ pc = "loop"
  /\ ci = 1
  /\ componentMatches = initialComponentMatches
  /\ matches = <<>>
  /\ unmatchedComponents = <<>>
  /\ unmatchedNodes = initialUnmatchedNodes(figmaComponents)
  /\ overall = Num(0)
  /\ matchResult = <<>>
  /\ call = 1
  /\ firstResult = <<>>
  /\ PanelIdle
  /\ SpatialIdle
  /\ GroupingIdle

SpecGreedyPositive == InitGreedyPositive /\ [][NextGreedy]_vars

\* either matcher
NextMatch == NextTopK \/ NextGreedy

SpecMatch == InitMatch /\ [][NextMatch]_vars

----------------------------------------------------------------------------
(* edit.tsx: the match-confirmation panel *)

MaxPanelComponents == 2

\* the names on the selection chips
PanelNames == {c.name : c \in PanelComponents}

\* the design file: the four nodes of MatchNodes in any order
PanelDocuments ==
  {WithIds(ns) : ns \in {d \in [1..Cardinality(MatchNodes) -> MatchNodes] :
                           \A i, j \in DOMAIN d : d[i] = d[j] => i = j}}

\* handleBoundsMatching returns before the matcher runs when
\* `reactBounds.length === 0`
InitPanel ==
  /\ service = "figmaService"
  /\ componentBounds \in SeqsUpTo(PanelComponents, MaxPanelComponents) \ {<<>>}
  /\ figmaComponents \in PanelDocuments
  /\ pc = "loop"
  /\ ci = 1
  /\ componentMatches = initialComponentMatches
  /\ matches = <<>>
  /\ unmatchedComponents = <<>>
  /\ unmatchedNodes = initialUnmatchedNodes(figmaComponents)
  /\ overall = Num(0)
  /\ matchResult = <<>>
  /\ call = 1
  /\ firstResult = <<>>
  /\ PanelIdle
  /\ SpatialIdle
  /\ GroupingIdle

\* a ComponentMatchCandidates as the matcher builds it: confirmedMatch is
\* not set (<<>> stands for undefined)
unconfirmed(cm) ==
  [componentBounds |-> cm.componentBounds, candidates |-> cm.candidates,
   confirmedMatch |-> <<>>]

\* setBoundsMatchingResults(matchingResult)
SetBoundsMatchingResults ==
  /\ service = "figmaService"
  /\ pc = "done"
  /\ boundsMatchingResults = <<>>
  /\ boundsMatchingResults' =
       <<[returned EXCEPT !.componentMatches =
            [k \in 1..Len(componentMatches) |-> unconfirmed(componentMatches[k])]]>>
  /\ UNCHANGED <<service, componentBounds, figmaComponents, pc, ci, componentMatches,
                 matches, unmatchedComponents, unmatchedNodes, overall, matchResult, call,
                 firstResult, selectedComponentId>>
  /\ UNCHANGED <<spatialVars, groupingVars>>

\* onClick of a selection chip: setSelectedComponentId(component.name)
SelectComponent ==
  /\ \E name \in PanelNames : selectedComponentId' = <<name>>
  /\ UNCHANGED <<service, componentBounds, figmaComponents, pc, ci, componentMatches,
                 matches, unmatchedComponents, unmatchedNodes, overall, matchResult, call,
                 firstResult, boundsMatchingResults>>
  /\ UNCHANGED <<spatialVars, groupingVars>>

\* onClick of "Clear": setSelectedComponentId(null)
ClearSelection ==
  /\ selectedComponentId' = <<>>
  /\ UNCHANGED <<service, componentBounds, figmaComponents, pc, ci, componentMatches,
                 matches, unmatchedComponents, unmatchedNodes, overall, matchResult, call,
                 firstResult, boundsMatchingResults>>
  /\ UNCHANGED <<spatialVars, groupingVars>>

\* cm.componentBounds.name
componentName(cm) == componentBounds[cm.componentBounds].name

\* componentMatches.find(cm => cm.componentBounds.name === selectedComponentId):
\* the index of the first entry of that name, 0 for undefined
findByName(cms, name) ==
  IF \E k \in 1..Len(cms) : componentName(cms[k]) = name
  THEN CHOOSE k \in 1..Len(cms) :
         componentName(cms[k]) = name /\ \A j \in 1..(k - 1) : componentName(cms[j]) # name
  ELSE 0

\* prev.componentMatches.map(cm => cm.componentBounds.name === selectedComponentId
\*   ? { ...cm, confirmedMatch: candidate } : cm)
updatedMatches(cms, name, candidate) ==
  [k \in 1..Len(cms) |->
     IF componentName(cms[k]) = name
     THEN [cms[k] EXCEPT !.confirmedMatch = <<candidate>>]
     ELSE cms[k]]

\* the panel is rendered for a truthy selectedComponentId that names an entry;
\* it lists the candidates of the first entry of that name, and each is a card
\* with the onClick below
ClickCandidate ==
  /\ boundsMatchingResults # <<>>
  /\ selectedComponentId # <<>>
  /\ selectedComponentId[1] # <<>>
  /\ LET prev == boundsMatchingResults[1]
         shown == findByName(prev.componentMatches, selectedComponentId[1])
     IN  /\ shown > 0
         /\ \E index \in 1..Len(prev.componentMatches[shown].candidates) :
              boundsMatchingResults' =
                <<[prev EXCEPT !.componentMatches =
                     updatedMatches(prev.componentMatches, selectedComponentId[1],
                                    prev.componentMatches[shown].candidates[index])]>>
  /\ UNCHANGED <<service, componentBounds, figmaComponents, pc, ci, componentMatches,
                 matches, unmatchedComponents, unmatchedNodes, overall, matchResult, call,
                 firstResult, selectedComponentId>>
  /\ UNCHANGED <<spatialVars, groupingVars>>

NextPanel ==
  \/ MatchComponent
  \/ MatchReturn
  \/ SetBoundsMatchingResults
  \/ SelectComponent
  \/ ClearSelection
  \/ ClickCandidate

SpecPanel == InitPanel /\ [][NextPanel]_vars

----------------------------------------------------------------------------
(* semanticGroupingService.ts: the layout analysis behind the grouping prompt *)

\* no matcher is running
MatchingIdle ==
  /\ service = "semanticGrouping"
  /\ componentBounds = <<>>
  /\ ci = 1
  /\ componentMatches = <<>>
  /\ matches = <<>>
  /\ unmatchedComponents = <<>>
  /\ unmatchedNodes = <<>>
  /\ overall = Num(0)
  /\ matchResult = <<>>
  /\ call = 1
  /\ firstResult = <<>>
  /\ PanelIdle

\* ComponentAnalysis: id, name, type, bounds and properties.characters
\* (the empty string stands for a missing text: both are falsy)
Analysis(name, type, characters, pos, size) ==
  [id |-> 0, name |-> name, type |-> type, characters |-> characters,
   x |-> pos[1], y |-> pos[2], width |-> size[1], height |-> size[2]]

\* const threshold = 10 of findVerticalAlignments / findHorizontalAlignments
alignmentThreshold == 10

\* mutant: the coordinate is rounded down
roundedCoordinateDown(v) == (v \div alignmentThreshold) * alignmentThreshold

\* Math.round(v / threshold) * threshold: Math.round takes halves upwards
roundedCoordinate(v) ==
  ((2 * v + alignmentThreshold) \div (2 * alignmentThreshold)) * alignmentThreshold

\* the body the two functions share: the components grouped by the rounded
\* coordinate on `axis`; Object.values lists the groups of the keys from 0 on
\* in ascending order and then those of the negative keys in the order they
\* were created; each group of more than one is sorted (stably) on the other axis
alignmentsAlong(components, axis) ==
  LET n == Len(components)
      along(k) == IF axis = "y" THEN components[k].y ELSE components[k].x
      across(k) == IF axis = "y" THEN components[k].x ELSE components[k].y
      key(k) == roundedCoordinate(along(k))
      firsts == {k \in 1..n : \A j \in 1..(k - 1) : key(j) # key(k)}
      before(j, k) == IF key(j) >= 0 THEN key(k) < 0 \/ key(j) < key(k)
                      ELSE key(k) < 0 /\ j < k
      place(k) == Cardinality({j \in firsts : before(j, k)}) + 1
      members(k) == {j \in 1..n : key(j) = key(k)}
      rank(j, k) == Cardinality({i \in members(k) :
                                   \/ across(i) < across(j)
                                   \/ (across(i) = across(j) /\ i < j)}) + 1
      sortedGroup(k) ==
        [r \in 1..Cardinality(members(k)) |->
           components[CHOOSE j \in members(k) : rank(j, k) = r]]
      values == [p \in 1..Cardinality(firsts) |->
                   sortedGroup(CHOOSE k \in firsts : place(k) = p)]
  IN  SelectSeq(values, LAMBDA group : Len(group) > 1)

\* findVerticalAlignments: similar Y positions, sorted by x
findVerticalAlignments(components) == alignmentsAlong(components, "y")

\* findHorizontalAlignments: similar X positions, sorted by y
findHorizontalAlignments(components) == alignmentsAlong(components, "x")

\* const threshold = 100 of findSpatialClusters
threshold == 100

\* a distance: a finite number of pixels, or Infinity
Finite(v) == [finite |-> TRUE, v |-> v]
Unbounded == [finite |-> FALSE, v |-> 0]

\* mutant: distance <= threshold
isNearInclusive(comp, other, maxDistance) ==
  \/ ~maxDistance.finite
  \/ /\ maxDistance.v >= 0
     /\ (comp.x - other.x) * (comp.x - other.x) + (comp.y - other.y) * (comp.y - other.y)
          <= maxDistance.v * maxDistance.v

\* Math.sqrt(dx^2 + dy^2) < threshold, compared on the squares
isNear(comp, other, maxDistance) ==
  \/ ~maxDistance.finite
  \/ /\ maxDistance.v > 0
     /\ (comp.x - other.x) * (comp.x - other.x) + (comp.y - other.y) * (comp.y - other.y)
          < maxDistance.v * maxDistance.v

\* the inner components.forEach(other => ...) from index j on
RECURSIVE GatherNear(_, _, _, _, _, _)
GatherNear(components, comp, j, processed, cluster, maxDistance) ==
  IF j > Len(components) THEN [cluster |-> cluster, processed |-> processed]
  ELSE
    LET other == components[j]
    IN  IF other.id \in processed \/ ~isNear(comp, other, maxDistance)
        THEN GatherNear(components, comp, j + 1, processed, cluster, maxDistance)
        ELSE GatherNear(components, comp, j + 1, processed \cup {other.id},
                        Append(cluster, other), maxDistance)

\* the outer components.forEach(comp => ...) from index k on
RECURSIVE ClusterFrom(_, _, _, _, _)
ClusterFrom(components, k, processed, found, maxDistance) ==
  IF k > Len(components) THEN found
  ELSE
    LET comp == components[k]
    IN  IF comp.id \in processed
        THEN ClusterFrom(components, k + 1, processed, found, maxDistance)
        ELSE
          LET g == GatherNear(components, comp, 1, processed \cup {comp.id}, <<comp>>,
                              maxDistance)
          IN  ClusterFrom(components, k + 1, g.processed,
                          IF Len(g.cluster) > 1 THEN Append(found, g.cluster) ELSE found,
                          maxDistance)

\* the body of findSpatialClusters for a given distance
findSpatialClustersWithin(components, maxDistance) ==
  ClusterFrom(components, 1, {}, <<>>, maxDistance)

\* findSpatialClusters
findSpatialClusters(components) == findSpatialClustersWithin(components, Finite(threshold))

\* the gap of `nextComponent.bounds.y - (component.bounds.y + component.bounds.height) > 50`
sectionGap == 50

\* [...components].sort((a, b) => a.bounds.y - b.bounds.y): stable
RECURSIVE InsertByY(_, _)
InsertByY(sorted, c) ==
  IF sorted = <<>> THEN <<c>>
  ELSE IF c.y < Head(sorted).y THEN <<c>> \o sorted
  ELSE <<Head(sorted)>> \o InsertByY(Tail(sorted), c)

RECURSIVE SortByYFrom(_, _)
SortByYFrom(sorted, rest) ==
  IF rest = <<>> THEN sorted
  ELSE SortByYFrom(InsertByY(sorted, Head(rest)), Tail(rest))

sortComponentsByY(components) == SortByYFrom(<<>>, components)

\* the section identifyVerticalSections starts with and restarts from
EmptySection ==
  [startY |-> 0, endY |-> 0, components |-> <<>>, types |-> <<>>, keyElements |-> <<>>]

\* mutant: the gap is taken with >=
gapToNextClosesInclusive(component, nextComponent) ==
  nextComponent.y - (component.y + component.height) >= sectionGap

\* nextComponent.bounds.y - (component.bounds.y + component.bounds.height) > 50
gapToNextCloses(component, nextComponent) ==
  nextComponent.y - (component.y + component.height) > sectionGap

\* mutant: the branch of the last component is missing
lastComponentNeverCloses(sorted, i) == FALSE

\* !nextComponent
lastComponentCloses(sorted, i) == i = Len(sorted)

\* one turn of the for loop of identifyVerticalSections on sortedByY[i]
scanComponent(section, closed, sorted, i) ==
  LET component == sorted[i]
      filled ==
        [startY |-> IF section.components = <<>> THEN component.y ELSE section.startY,
         endY |-> section.endY,
         components |-> Append(section.components, component),
         types |-> Append(section.types, component.type),
         keyElements |->
           IF component.characters # <<>>
           THEN Append(section.keyElements, component.characters)
           ELSE IF component.name # <<>> THEN Append(section.keyElements, component.name)
           ELSE section.keyElements]
      ended == [filled EXCEPT !.endY = component.y + component.height]
  IN  IF i < Len(sorted) /\ gapToNextCloses(component, sorted[i + 1])
      THEN [currentSection |-> EmptySection, sections |-> Append(closed, ended)]
      ELSE IF lastComponentCloses(sorted, i)
      THEN [currentSection |-> ended, sections |-> Append(closed, ended)]
      ELSE [currentSection |-> filled, sections |-> closed]

(* Inputs of the layout analysis *)

MaxSpatialNodes == 3

\* top-left corners and heights: gaps of exactly 50 and of 51 below the first
\* node, a corner exactly 100 away from it, a tall node, a far node, a node
\* half a step left of the others
SpatialNodes ==
  { Analysis(Sample("X"), FigmaType("Text"), Sample("OK"), <<0, 0>>, <<10, 10>>),
    Analysis(Sample("X"), FigmaType("Frame"), <<>>, <<0, 60>>, <<10, 10>>),
    Analysis(Sample("Button"), FigmaType("Instance"), <<>>, <<0, 61>>, <<10, 10>>),
    Analysis(<<>>, FigmaType("Rectangle"), <<>>, <<60, 80>>, <<10, 0>>),
    Analysis(Sample("Card"), FigmaType("Frame"), <<>>, <<0, 0>>, <<10, 62>>),
    Analysis(Sample("X"), FigmaType("Text"), Sample("OK"), <<0, 120>>, <<10, 4>>),
    Analysis(Sample("X"), FigmaType("Rectangle"), <<>>, <<-5, 64>>, <<10, 4>>) }

\* five nodes at y = 0, 5, 8, 120, 124; the height of the third one varies
ScenarioYs == <<0, 5, 8, 120, 124>>
ScenarioHeights == {4, 61, 62}

ScenarioNodes(h) ==
  [k \in 1..Len(ScenarioYs) |->
     Analysis(Sample("X"), FigmaType("Rectangle"), <<>>, <<0, ScenarioYs[k]>>, <<10, IF k = 3 THEN h ELSE 4>>)]

Reversed(seq) == [k \in 1..Len(seq) |-> seq[Len(seq) + 1 - k]]

SpatialInputs ==
  {WithIds(ns) : ns \in SeqsUpTo(SpatialNodes, MaxSpatialNodes)}
    \cup {WithIds(ScenarioNodes(h)) : h \in ScenarioHeights}
    \cup {WithIds(Reversed(ScenarioNodes(h))) : h \in ScenarioHeights}

InitSpatial ==
  /\ MatchingIdle
  /\ GroupingIdle
  /\ figmaComponents \in SpatialInputs
  /\ pc = "clusters"
  /\ SpatialIdle

\* analyzeSpatialRelationships: clusters, verticalGroups and horizontalGroups
FindSpatialClusters ==
  /\ pc = "clusters"
  /\ clusters' = findSpatialClusters(figmaComponents)
  /\ alignments' = [verticalGroups |-> findVerticalAlignments(figmaComponents),
                    horizontalGroups |-> findHorizontalAlignments(figmaComponents)]
  /\ pc' = "sort"
  /\ UNCHANGED <<service, componentBounds, figmaComponents, ci, componentMatches, matches,
                 unmatchedComponents, unmatchedNodes, overall, matchResult, call,
                 firstResult, sortedByY, si, currentSection, sections, groupingVars,
                 panelVars>>

\* identifyVerticalSections up to the for loop
SortByY ==
  /\ pc = "sort"
  /\ sortedByY' = sortComponentsByY(figmaComponents)
  /\ sections' = <<>>
  /\ currentSection' = EmptySection
  /\ si' = 1
  /\ pc' = "scan"
  /\ UNCHANGED <<service, componentBounds, figmaComponents, ci, componentMatches, matches,
                 unmatchedComponents, unmatchedNodes, overall, matchResult, call,
                 firstResult, clusters, alignments, groupingVars,
                 panelVars>>

\* one turn of the for loop
ScanComponent ==
  /\ pc = "scan"
  /\ si <= Len(sortedByY)
  /\ LET after == scanComponent(currentSection, sections, sortedByY, si)
     IN  /\ currentSection' = after.currentSection
         /\ sections' = after.sections
  /\ si' = si + 1
  /\ UNCHANGED <<service, componentBounds, figmaComponents, pc, ci, componentMatches,
                 matches, unmatchedComponents, unmatchedNodes, overall, matchResult, call,
                 firstResult, clusters, alignments, sortedByY, groupingVars,
                 panelVars>>

\* return sections
ReturnSections ==
  /\ pc = "scan"
  /\ si > Len(sortedByY)
  /\ pc' = "analysed"
  /\ UNCHANGED <<service, componentBounds, figmaComponents, ci, componentMatches, matches,
                 unmatchedComponents, unmatchedNodes, overall, matchResult, call,
                 firstResult, spatialVars, groupingVars,
                 panelVars>>

NextSpatial == FindSpatialClusters \/ SortByY \/ ScanComponent \/ ReturnSections

SpecSpatial == InitSpatial /\ [][NextSpatial]_vars

----------------------------------------------------------------------------
(* semanticGroupingService.ts: validateAndEnhanceResult, autoMapComponentsToGroups,
   createFallbackResult.  processingTime (wall clock) and the pass-through
   group.properties of a proposed group are left out of the records. *)

layoutKeywords(w) ==
  CASE w = "header" -> <<"h","e","a","d","e","r">>
    [] w = "top" -> <<"t","o","p">>
    [] w = "navigation" -> <<"n","a","v","i","g","a","t","i","o","n">>
    [] w = "footer" -> <<"f","o","o","t","e","r">>
    [] w = "bottom" -> <<"b","o","t","t","o","m">>
    [] w = "action" -> <<"a","c","t","i","o","n">>
    [] w = "content" -> <<"c","o","n","t","e","n","t">>
    [] w = "main" -> <<"m","a","i","n">>
    [] w = "body" -> <<"b","o","d","y">>
    [] w = "section" -> <<"s","e","c","t","i","o","n">>
    [] w = "label" -> <<"l","a","b","e","l">>
    [] w = "container" -> <<"c","o","n","t","a","i","n","e","r">>
    [] w = "button" -> <<"b","u","t","t","o","n">>
    [] w = "text" -> <<"t","e","x","t">>
    [] w = "card" -> <<"c","a","r","d">>
groupDefaults(w) ==
  CASE w = "unnamedGroup" -> <<"U","n","n","a","m","e","d"," ","G","r","o","u","p">>
    [] w = "componentSuffix" -> <<" ","C","o","m","p","o","n","e","n","t">>
    [] w = "componentLower" -> <<" ","c","o","m","p","o","n","e","n","t">>

\* String.prototype.split(' '): every single space separates, empty pieces are kept
RECURSIVE SplitSpace(_, _)
SplitSpace(s, cur) ==
  IF s = <<>> THEN <<cur>>
  ELSE IF Head(s) = " " THEN <<cur>> \o SplitSpace(Tail(s), <<>>)
  ELSE SplitSpace(Tail(s), Append(cur, Head(s)))

splitSpace(s) == SplitSpace(s, <<>>)

\* bounds: group.bounds || { x: 0, y: 0, width: 100, height: 50 }
defaultGroupBounds == [x |-> 0, y |-> 0, width |-> 100, height |-> 50]

\* Math.max(0.1, Math.min(1.0, c))
clampConfidence(c) == MathMax(Div(1, 10), MathMin(Num(1), c))

\* group.confidence || 0.7: undefined and 0 are falsy
confidenceOrDefault(given, c) == IF given /\ c # Num(0) /\ ~IsNaN(c) THEN c ELSE Div(7, 10)

\* findChildrenByIds: the first component of each id, unknown ids dropped
RECURSIVE findChildrenByIds(_, _)
findChildrenByIds(childIds, allComponents) ==
  IF childIds = <<>> THEN <<>>
  ELSE
    LET found == SelectSeq(allComponents, LAMBDA comp : comp.id = Head(childIds))
    IN  (IF found = <<>> THEN <<>> ELSE <<Head(found)>>)
          \o findChildrenByIds(Tail(childIds), allComponents)

\* one element of (result.groups || []).map(group => ({...})); random is the
\* value of Math.random() for a group without id
validatedGroup(group, originalComponents, random) ==
  [id |-> IF group.id # <<>> THEN group.id ELSE <<"group-", random>>,
   name |-> IF group.name # <<>> THEN group.name ELSE groupDefaults("unnamedGroup"),
   type |-> IF group.type # "" THEN group.type ELSE "other",
   description |-> group.description,
   bounds |-> IF group.hasBounds THEN group.bounds ELSE defaultGroupBounds,
   children |-> findChildrenByIds(group.children, originalComponents),
   properties |-> <<>>,
   confidence |-> clampConfidence(confidenceOrDefault(group.hasConfidence, group.confidence))]

\* calculateOverallBounds, for one component or more
RECURSIVE MinOver(_, _)
MinOver(xs, k) == IF k = 1 THEN xs[1] ELSE IntMin(xs[k], MinOver(xs, k - 1))

RECURSIVE MaxOver(_, _)
MaxOver(xs, k) == IF k = 1 THEN xs[1] ELSE IntMax(xs[k], MaxOver(xs, k - 1))

calculateOverallBounds(components) ==
  LET n == Len(components)
      allX == [k \in 1..n |-> components[k].x]
      allY == [k \in 1..n |-> components[k].y]
      allRight == [k \in 1..n |-> components[k].x + components[k].width]
      allBottom == [k \in 1..n |-> components[k].y + components[k].height]
  IN  [minX |-> MinOver(allX, n), minY |-> MinOver(allY, n),
       maxX |-> MaxOver(allRight, n), maxY |-> MaxOver(allBottom, n),
       width |-> MaxOver(allRight, n) - MinOver(allX, n),
       height |-> MaxOver(allBottom, n) - MinOver(allY, n)]

\* bounds.minY + bounds.height * 0.25; of no component, Infinity - Infinity
topThreshold(components) ==
  IF components = <<>> THEN NaN
  ELSE LET bounds == calculateOverallBounds(components)
       IN  Add(Num(bounds.minY), Mul(Num(bounds.height), Div(1, 4)))

\* bounds.minY + bounds.height * 0.75
middleThreshold(components) ==
  IF components = <<>> THEN NaN
  ELSE LET bounds == calculateOverallBounds(components)
       IN  Add(Num(bounds.minY), Mul(Num(bounds.height), Div(3, 4)))

\* [...groupName.split(' '), ...groupDescription.split(' ')]
groupKeywords(group) ==
  splitSpace(toLowerCase(group.name)) \o splitSpace(toLowerCase(group.description))

\* strategy 1: the text or the name of the component holds a keyword of 3 letters or more
keywordHit(keywords, comp) ==
  LET compText == toLowerCase(comp.characters)
      compName == toLowerCase(comp.name)
  IN  \E k \in 1..Len(keywords) :
        /\ Len(keywords[k]) >= 3
        /\ (includes(compText, keywords[k]) \/ includes(compName, keywords[k]))

\* mutant: the position strategy selects every component
positionHitEverywhere(groupName, group, comp, top, middle) == TRUE

\* strategy 2: the band the group name asks for
positionHit(groupName, group, comp, top, middle) ==
      IF includes(groupName, layoutKeywords("header")) \/ includes(groupName, layoutKeywords("top"))
           \/ includes(groupName, layoutKeywords("navigation"))
      THEN Gt(top, Num(comp.y))
      ELSE IF includes(groupName, layoutKeywords("footer")) \/ includes(groupName, layoutKeywords("bottom"))
                \/ includes(groupName, layoutKeywords("action"))
      THEN Gt(Num(comp.y), middle)
      ELSE IF includes(groupName, layoutKeywords("content")) \/ includes(groupName, layoutKeywords("main"))
                \/ includes(groupName, layoutKeywords("body"))
      THEN Ge(Num(comp.y), top) /\ Ge(middle, Num(comp.y))
      ELSE IF includes(groupName, layoutKeywords("section"))
      THEN Abs(comp.y - group.bounds.y) < 100
      ELSE FALSE

\* strategy 3: the component type the group type or name asks for
typeHit(groupName, group, comp) ==
      IF group.type = "button" \/ includes(groupName, layoutKeywords("button"))
      THEN \/ comp.type = FigmaType("Instance")
           \/ includes(toLowerCase(comp.name), layoutKeywords("button"))
           \/ (comp.type = FigmaType("Rectangle") /\ comp.width > 100)
      ELSE IF group.type = "text" \/ includes(groupName, layoutKeywords("text"))
                \/ includes(groupName, layoutKeywords("label"))
      THEN comp.type = FigmaType("Text")
      ELSE IF group.type = "container" \/ includes(groupName, layoutKeywords("container"))
                \/ includes(groupName, layoutKeywords("card"))
      THEN comp.type \in {FigmaType("Frame"), FigmaType("Group"), FigmaType("Rectangle")}
      ELSE FALSE

\* strategy 4: the component overlaps the bounds of the group or lies within 150 of its corner
proximityHit(group, comp) ==
  /\ group.bounds.width > 0
  /\ group.bounds.height > 0
  /\ \/ /\ comp.x < group.bounds.x + group.bounds.width
        /\ comp.x + comp.width > group.bounds.x
        /\ comp.y < group.bounds.y + group.bounds.height
        /\ comp.y + comp.height > group.bounds.y
     \/ (comp.x - group.bounds.x) * (comp.x - group.bounds.x)
          + (comp.y - group.bounds.y) * (comp.y - group.bounds.y) < 150 * 150

\* candidateComponents.filter((comp, index, arr) => arr.findIndex(c => c.id === comp.id) === index)
RECURSIVE UniqueById(_, _)
UniqueById(candidates, seen) ==
  IF candidates = <<>> THEN <<>>
  ELSE IF Head(candidates).id \in seen THEN UniqueById(Tail(candidates), seen)
  ELSE <<Head(candidates)>> \o UniqueById(Tail(candidates), seen \cup {Head(candidates).id})

\* .sort((a, b) => b.score - a.score): stable
RECURSIVE InsertByScore(_, _)
InsertByScore(sorted, e) ==
  IF sorted = <<>> THEN <<e>>
  ELSE IF e.score > Head(sorted).score THEN <<e>> \o sorted
  ELSE <<Head(sorted)>> \o InsertByScore(Tail(sorted), e)

RECURSIVE SortByScoreFrom(_, _)
SortByScoreFrom(sorted, rest) ==
  IF rest = <<>> THEN sorted
  ELSE SortByScoreFrom(InsertByScore(sorted, Head(rest)), Tail(rest))

\* mutant: one limit for every group
maxComponentsFlat(groupName) == 4

\* const maxComponents = ...
maxComponents(groupName) ==
      IF includes(groupName, layoutKeywords("section")) THEN 8
      ELSE IF includes(groupName, layoutKeywords("button")) THEN 3
      ELSE IF includes(groupName, layoutKeywords("text")) THEN 5
      ELSE 4

\* the body of groups.forEach for a group without children: mappedComponents
mapComponents(group, pool, components) ==
  LET n == Len(pool)
      top == topThreshold(components)
      middle == middleThreshold(components)
      groupName == toLowerCase(group.name)
      keywords == groupKeywords(group)
      kw == [k \in 1..n |-> keywordHit(keywords, pool[k])]
      pos == [k \in 1..n |-> positionHit(groupName, group, pool[k], top, middle)]
      ty == [k \in 1..n |-> typeHit(groupName, group, pool[k])]
      prox == [k \in 1..n |-> proximityHit(group, pool[k])]
      entry(k) ==
        [component |-> pool[k], id |-> pool[k].id, index |-> k,
         score |-> (IF kw[k] THEN 3 ELSE 0) + (IF pos[k] THEN 2 ELSE 0)
                   + (IF ty[k] THEN 2 ELSE 0) + (IF prox[k] THEN 1 ELSE 0)
                   + (IF pool[k].width > 20 /\ pool[k].height > 10 THEN 1 ELSE 0)]
      entries == [k \in 1..n |-> entry(k)]
      pick(hit) == SelectSeq(entries, LAMBDA e : hit[e.index])
      candidateComponents == pick(kw) \o pick(pos) \o pick(ty) \o pick(prox)
      scoredCandidates == SortByScoreFrom(<<>>, UniqueById(candidateComponents, {}))
      kept == SubSeq(scoredCandidates, 1, IntMin(maxComponents(groupName), Len(scoredCandidates)))
  IN  [k \in 1..Len(kept) |-> kept[k].component]

\* const index = availableComponents.indexOf(comp); if (index > -1) availableComponents.splice(index, 1)
RECURSIVE RemoveFirst(_, _)
RemoveFirst(pool, comp) ==
  IF pool = <<>> THEN <<>>
  ELSE IF Head(pool) = comp THEN Tail(pool)
  ELSE <<Head(pool)>> \o RemoveFirst(Tail(pool), comp)

RECURSIVE RemoveAll(_, _)
RemoveAll(pool, mapped) ==
  IF mapped = <<>> THEN pool ELSE RemoveAll(RemoveFirst(pool, Head(mapped)), Tail(mapped))

\* mappedComponents.forEach(comp => ... splice ...)
removeMapped(pool, mapped) == RemoveAll(pool, mapped)

\* groups.flatMap(g => g.children.map(c => c.id)) as a set
groupedNodeIds(groupList) ==
  UNION {{groupList[g].children[k].id : k \in 1..Len(groupList[g].children)} :
           g \in 1..Len(groupList)}

\* mutant: a node counts as ungrouped unless the first group holds it
ungroupedOfFirstGroup(groupList, originalComponents) ==
  SelectSeq(originalComponents,
            LAMBDA comp : comp.id \notin groupedNodeIds(SubSeq(groupList, 1, IntMin(1, Len(groupList)))))

\* originalComponents.filter(comp => !groupedNodeIds.has(comp.id))
ungroupedOf(groupList, originalComponents) ==
  SelectSeq(originalComponents, LAMBDA comp : comp.id \notin groupedNodeIds(groupList))

\* the layoutStructure of a reply that carries an (empty) layoutStructure object
defaultLayoutStructure ==
  [screenType |-> "general", mainSections |-> <<>>,
   userFlow |-> "User interacts with interface"]

\* mutant: groups left without children are dropped from the result
enhancedResultWithoutEmpty(result, groupList, originalComponents) ==
  LET ungroupedNodes == ungroupedOf(groupList, originalComponents)
  IN  [layoutStructure |-> IF result.hasLayout THEN <<defaultLayoutStructure>> ELSE <<>>,
       groups |-> SelectSeq(groupList, LAMBDA g : g.children # <<>>),
       totalNodes |-> Len(originalComponents),
       groupedNodes |-> Len(originalComponents) - Len(ungroupedNodes),
       ungroupedNodes |-> ungroupedNodes,
       confidence |-> clampConfidence(confidenceOrDefault(result.hasConfidence, result.confidence))]

\* the object validateAndEnhanceResult returns
enhancedResult(result, groupList, originalComponents) ==
  LET ungroupedNodes == ungroupedOf(groupList, originalComponents)
  IN  [layoutStructure |-> IF result.hasLayout THEN <<defaultLayoutStructure>> ELSE <<>>,
       groups |-> groupList,
       totalNodes |-> Len(originalComponents),
       groupedNodes |-> Len(originalComponents) - Len(ungroupedNodes),
       ungroupedNodes |-> ungroupedNodes,
       confidence |-> clampConfidence(confidenceOrDefault(result.hasConfidence, result.confidence))]

\* mutant: a frame is taken for a text
mapTypeToSemanticFrameAsText(figmaType) ==
  IF figmaType \in {FigmaType("Text"), FigmaType("Frame")} THEN "text"
  ELSE IF figmaType \in {FigmaType("Rectangle"), FigmaType("Group")} THEN "container"
  ELSE "other"

\* mapTypeToSemantic: typeMap[figmaType] || 'other'
mapTypeToSemantic(figmaType) ==
  IF figmaType = FigmaType("Text") THEN "text"
  ELSE IF figmaType \in {FigmaType("Rectangle"), FigmaType("Frame"), FigmaType("Group")} THEN "container"
  ELSE "other"

\* the group createFallbackResult builds for one component
fallbackGroup(comp) ==
  [id |-> <<"fallback-", comp.id>>,
   name |-> IF comp.name # <<>> THEN comp.name ELSE comp.type \o groupDefaults("componentSuffix"),
   type |-> mapTypeToSemantic(comp.type),
   description |-> comp.type \o groupDefaults("componentLower"),
   bounds |-> [x |-> comp.x, y |-> comp.y, width |-> comp.width, height |-> comp.height],
   children |-> <<comp>>,
   properties |-> <<[interactive |-> comp.type = FigmaType("Button")
                                      \/ includes(toLowerCase(comp.name), layoutKeywords("button")),
                     text |-> comp.characters]>>,
   confidence |-> Div(1, 2)]

\* components.forEach(comp => { if (processed.has(comp.id)) return; ... }) from index k on
RECURSIVE FallbackGroupsFrom(_, _, _, _)
FallbackGroupsFrom(components, k, processed, built) ==
  IF k > Len(components) THEN built
  ELSE IF components[k].id \in processed
  THEN FallbackGroupsFrom(components, k + 1, processed, built)
  ELSE FallbackGroupsFrom(components, k + 1, processed \cup {components[k].id},
                          Append(built, fallbackGroup(components[k])))

\* the 15 of groups.slice(0, 15), Math.min(15, components.length), components.slice(15)
fallbackLimit == 15

\* array.slice(from) / array.slice(0, to), indices counted from 0
sliceFrom(arr, from) == SubSeq(arr, from + 1, Len(arr))
sliceTo(arr, to) == SubSeq(arr, 1, IntMin(to, Len(arr)))

\* ungroupedNodes: components.slice(15)
fallbackUngrouped(components) == sliceFrom(components, fallbackLimit)

\* createFallbackResult
createFallbackResult(components) ==
  [layoutStructure |-> <<>>,
   groups |-> sliceTo(FallbackGroupsFrom(components, 1, {}, <<>>), fallbackLimit),
   totalNodes |-> Len(components),
   groupedNodes |-> IntMin(fallbackLimit, Len(components)),
   ungroupedNodes |-> fallbackUngrouped(components),
   confidence |-> Div(1, 2)]

(* Inputs of the grouping call *)


MaxGroupingNodes == 2
MaxLongNodes == 17
MaxGroups == 2

\* an instance named Button, a text, a frame far below, a wide flat rectangle
GroupingNodeSeq ==
  << Analysis(Sample("Button"), FigmaType("Instance"), <<>>, <<0, 0>>, <<120, 40>>),
     Analysis(Sample("X"), FigmaType("Text"), Sample("OK"), <<0, 60>>, <<30, 12>>),
     Analysis(Sample("Card"), FigmaType("Frame"), <<>>, <<0, 700>>, <<200, 100>>),
     Analysis(Sample("X"), FigmaType("Rectangle"), Sample("GoUp"), <<0, 120>>, <<101, 5>>) >>

\* short documents are made of the first three
GroupingNodes == {GroupingNodeSeq[k] : k \in 1..3}

\* a document of n nodes, 50 apart from top to bottom
LongNodes(n) ==
  [k \in 1..n |->
     [GroupingNodeSeq[((k - 1) % Len(GroupingNodeSeq)) + 1] EXCEPT !.y = 50 * (k - 1)]]

GroupingInputs ==
  {WithIds(ns) : ns \in SeqsUpTo(GroupingNodes, MaxGroupingNodes)}
    \cup {WithIds(LongNodes(n)) : n \in fallbackLimit..MaxLongNodes}

\* a proposed group with every optional field missing
BareGroup ==
  [id |-> <<>>, name |-> <<>>, type |-> "", description |-> <<>>,
   hasBounds |-> FALSE, bounds |-> [x |-> 0, y |-> 0, width |-> 0, height |-> 0],
   childrenIsArray |-> TRUE, children |-> <<>>,
   hasConfidence |-> FALSE, confidence |-> Num(0)]

\* the groups the classifier proposes: without children (header, button, text
\* section), with children (one known id; a known and an unknown id), and one
\* whose children are no array; confidences 0, none, 1/2, 1/20, 3/2, 1
ProposedGroups ==
  { [BareGroup EXCEPT !.name = Sample("Header"), !.hasConfidence = TRUE, !.confidence = Num(0)],
    [BareGroup EXCEPT !.id = <<"buttons">>, !.name = Sample("OkButton"), !.type = "button",
                      !.hasBounds = TRUE,
                      !.bounds = [x |-> 0, y |-> 120, width |-> 200, height |-> 40]],
    [BareGroup EXCEPT !.id = <<"card">>, !.name = Sample("Card"), !.type = "container",
                      !.children = <<1>>, !.hasConfidence = TRUE, !.confidence = Div(1, 2)],
    [BareGroup EXCEPT !.id = <<"texts">>, !.name = Sample("TextSection"), !.type = "text",
                      !.hasBounds = TRUE,
                      !.bounds = [x |-> 0, y |-> 60, width |-> 0, height |-> 0],
                      !.hasConfidence = TRUE, !.confidence = Div(1, 20)],
    [BareGroup EXCEPT !.id = <<"rest">>, !.children = <<2, 9>>, !.hasConfidence = TRUE,
                      !.confidence = Div(3, 2)],
    [BareGroup EXCEPT !.id = <<"broken">>, !.name = Sample("Footer"), !.childrenIsArray = FALSE,
                      !.hasConfidence = TRUE, !.confidence = Num(1)] }

\* the values Math.random() takes
RandomDraws == {1, 2}

\* a reply that is read, parsed and carries `groups: []`
PlainReply ==
  [fetch |-> "response", ok |-> TRUE, body |-> "data", content |-> "object",
   hasGroups |-> TRUE, groupsIsArray |-> TRUE, groups |-> <<>>,
   hasConfidence |-> FALSE, confidence |-> Num(0), hasLayout |-> FALSE]

\* fetch rejects; the status is not OK; the body is no JSON; the body has no
\* choices; the content is no JSON; the content is `null`; groups is no array
BrokenReplies ==
  { [PlainReply EXCEPT !.fetch = "rejected"],
    [PlainReply EXCEPT !.ok = FALSE],
    [PlainReply EXCEPT !.body = "unreadable"],
    [PlainReply EXCEPT !.body = "noChoices"],
    [PlainReply EXCEPT !.content = "unparsable"],
    [PlainReply EXCEPT !.content = "null"],
    [PlainReply EXCEPT !.groupsIsArray = FALSE] }

\* replies with proposed groups, bare or with a confidence and a layoutStructure
\* of their own, and the reply `{}`
ParsedReplies ==
  { [PlainReply EXCEPT !.groups = gs, !.hasConfidence = extra,
                       !.confidence = IF extra THEN Div(3, 2) ELSE Num(0),
                       !.hasLayout = extra] :
      gs \in SeqsUpTo(ProposedGroups, MaxGroups), extra \in BOOLEAN }
    \cup {[PlainReply EXCEPT !.hasGroups = FALSE]}

Replies == BrokenReplies \cup ParsedReplies

(* groupComponents: the classifier call inside try, the fallback inside catch *)

matchingVars == <<service, componentBounds, ci, componentMatches, matches,
                  unmatchedComponents, unmatchedNodes, overall, matchResult, call,
                  firstResult, panelVars>>

InitGroup ==
  /\ MatchingIdle
  /\ SpatialIdle
  /\ figmaComponents \in GroupingInputs
  /\ reply \in Replies
  /\ pc = "fetch"
  /\ groups = <<>>
  /\ availableComponents = <<>>
  /\ gi = 1
  /\ groupingResult = <<>>

\* await fetch(...): the promise rejects or yields a response
FetchClassifier ==
  /\ pc = "fetch"
  /\ pc' = IF reply.fetch = "rejected" THEN "catch" ELSE "status"
  /\ UNCHANGED <<figmaComponents, matchingVars, spatialVars, groupingVars>>

\* if (!response.ok) throw new Error(...)
CheckStatus ==
  /\ pc = "status"
  /\ pc' = IF reply.ok THEN "json" ELSE "catch"
  /\ UNCHANGED <<figmaComponents, matchingVars, spatialVars, groupingVars>>

\* await response.json()
ReadBody ==
  /\ pc = "json"
  /\ pc' = IF reply.body = "unreadable" THEN "catch" ELSE "parse"
  /\ UNCHANGED <<figmaComponents, matchingVars, spatialVars, groupingVars>>

\* JSON.parse(data.choices[0].message.content)
ParseContent ==
  /\ pc = "parse"
  /\ pc' = IF reply.body = "noChoices" \/ reply.content = "unparsable"
           THEN "catch" ELSE "validate"
  /\ UNCHANGED <<figmaComponents, matchingVars, spatialVars, groupingVars>>

\* validateAndEnhanceResult, lines 546-562: result.groups of null, map of a
\* value that is no array and childIds.map of a value that is no array throw
ValidateGroups ==
  /\ pc = "validate"
  /\ IF \/ reply.content = "null"
        \/ (reply.hasGroups /\ ~reply.groupsIsArray)
        \/ (reply.hasGroups /\ \E k \in 1..Len(reply.groups) : ~reply.groups[k].childrenIsArray)
     THEN /\ pc' = "catch"
          /\ UNCHANGED <<groups, availableComponents, gi>>
     ELSE
       LET proposed == IF reply.hasGroups THEN reply.groups ELSE <<>>
           withoutId == {k \in 1..Len(proposed) : proposed[k].id = <<>>}
       IN  \E random \in [withoutId -> RandomDraws] :
             LET validated ==
                   [k \in 1..Len(proposed) |->
                      validatedGroup(proposed[k], figmaComponents,
                                     IF k \in withoutId THEN random[k] ELSE 0)]
             IN  /\ groups' = validated
                 /\ IF \E k \in 1..Len(validated) : validated[k].children = <<>>
                    THEN /\ pc' = "automap"
                         /\ availableComponents' = figmaComponents
                         /\ gi' = 1
                    ELSE /\ pc' = "collect"
                         /\ UNCHANGED <<availableComponents, gi>>
  /\ UNCHANGED <<figmaComponents, matchingVars, spatialVars, reply, groupingResult>>

\* autoMapComponentsToGroups: one turn of groups.forEach
AutoMapGroup ==
  /\ pc = "automap"
  /\ gi <= Len(groups)
  /\ IF groups[gi].children # <<>>
     THEN UNCHANGED <<groups, availableComponents>>
     ELSE LET mappedComponents ==
                mapComponents(groups[gi], availableComponents, figmaComponents)
          IN  /\ groups' = [groups EXCEPT ![gi].children = mappedComponents]
              /\ availableComponents' = removeMapped(availableComponents, mappedComponents)
  /\ gi' = gi + 1
  /\ UNCHANGED <<figmaComponents, pc, matchingVars, spatialVars, reply, groupingResult>>

\* groups.forEach is over
AutoMapDone ==
  /\ pc = "automap"
  /\ gi > Len(groups)
  /\ pc' = "collect"
  /\ UNCHANGED <<figmaComponents, matchingVars, spatialVars, groupingVars>>

\* validateAndEnhanceResult, lines 564-588, and the return of groupComponents
CollectResult ==
  /\ pc = "collect"
  /\ groupingResult' = enhancedResult(reply, groups, figmaComponents)
  /\ pc' = "done"
  /\ UNCHANGED <<figmaComponents, matchingVars, spatialVars, reply, groups,
                 availableComponents, gi>>

\* mutant: the error is thrown on
CatchRethrow ==
  /\ pc = "catch"
  /\ pc' = "rejected"
  /\ UNCHANGED <<figmaComponents, matchingVars, spatialVars, groupingVars>>

\* catch (error) { return this.createFallbackResult(figmaComponents, ...) }
CatchFallback ==
  /\ pc = "catch"
  /\ groupingResult' = createFallbackResult(figmaComponents)
  /\ pc' = "done"
  /\ UNCHANGED <<figmaComponents, matchingVars, spatialVars, reply, groups,
                 availableComponents, gi>>

NextGroup ==
  \/ FetchClassifier
  \/ CheckStatus
  \/ ReadBody
  \/ ParseContent
  \/ ValidateGroups
  \/ AutoMapGroup
  \/ AutoMapDone
  \/ CollectResult
  \/ CatchFallback

SpecGroup == InitGroup /\ [][NextGroup]_vars

(* Inputs of the auto-mapping runs: validated replies over the header scenario
   and over documents long enough for the member limits to cut *)

MaxAutoMapNodes == 10
MaxAutoMapGroups == 2

\* nodes at y = 10, 50 and 700, the last one 110 high: minY = 10 and
\* maxY = 810, so the overall bounding box is 800 high; the last node is a
\* frame, a text named Header, or a plain text
HeaderScenarioNodes ==
  { << Analysis(Sample("X"), FigmaType("Text"), Sample("OK"), <<0, 10>>, <<100, 20>>),
       Analysis(Sample("Button"), FigmaType("Instance"), <<>>, <<0, 50>>, <<100, 20>>),
       last >> :
      last \in { Analysis(Sample("Card"), FigmaType("Frame"), <<>>, <<0, 700>>, <<100, 110>>),
                 Analysis(Sample("Header"), FigmaType("Text"), Sample("OK"), <<0, 700>>, <<100, 110>>),
                 Analysis(Sample("X"), FigmaType("Text"), Sample("OK"), <<0, 700>>, <<100, 110>>) } }

AutoMapInputs ==
  {WithIds(ns) : ns \in HeaderScenarioNodes}
    \cup {WithIds(Reversed(ns)) : ns \in HeaderScenarioNodes}
    \cup {WithIds(LongNodes(n)) : n \in (MaxAutoMapNodes - 1)..MaxAutoMapNodes}

\* groups proposed without children: two header sections (bare; a container
\* with bounds around y = 700), a container, a text section, a button group
\* named after buttons and one that is not
AutoMapGroups ==
  { [BareGroup EXCEPT !.id = <<"header">>, !.name = Sample("HeaderSection")],
    [BareGroup EXCEPT !.id = <<"header2">>, !.name = Sample("HeaderSection"),
                      !.type = "container", !.hasBounds = TRUE,
                      !.bounds = [x |-> 0, y |-> 650, width |-> 200, height |-> 100]],
    [BareGroup EXCEPT !.id = <<"card">>, !.name = Sample("Card"), !.type = "container"],
    [BareGroup EXCEPT !.id = <<"texts">>, !.name = Sample("TextSection"), !.type = "text",
                      !.hasBounds = TRUE,
                      !.bounds = [x |-> 0, y |-> 60, width |-> 0, height |-> 0]],
    [BareGroup EXCEPT !.id = <<"buttons">>, !.name = Sample("OkButton"), !.type = "button",
                      !.hasBounds = TRUE,
                      !.bounds = [x |-> 0, y |-> 120, width |-> 200, height |-> 40]],
    [BareGroup EXCEPT !.id = <<"actions">>, !.name = Sample("Footer"), !.type = "button"] }

\* validated replies, and one call that fails
AutoMapReplies ==
  {[PlainReply EXCEPT !.groups = gs] : gs \in SeqsUpTo(AutoMapGroups, MaxAutoMapGroups)}
    \cup {[PlainReply EXCEPT !.ok = FALSE]}

InitAutoMap ==
  /\ MatchingIdle
  /\ SpatialIdle
  /\ figmaComponents \in AutoMapInputs
  /\ reply \in AutoMapReplies
  /\ pc = "fetch"
  /\ groups = <<>>
  /\ availableComponents = <<>>
  /\ gi = 1
  /\ groupingResult = <<>>

SpecAutoMap == InitAutoMap /\ [][NextGroup]_vars

----------------------------------------------------------------------------
(* Properties *)

NodeIds(nodes) == {nodes[k].id : k \in 1..Len(nodes)}

\* the confidence figmaService.ts gives the pair (component number c, node)
PairConfidence(c, node) == scorePair(c, componentBounds[c], node).confidence

\* node is one of the candidates of the entry e of componentMatches
InList(e, node) == \E k \in 1..Len(e.candidates) : e.candidates[k].figmaNode.id = node.id

\* the entries of componentMatches / unmatchedComponents that hold component number c
EntriesOf(c) == {m \in 1..Len(componentMatches) : componentMatches[m].componentBounds = c}

UnmatchedEntriesOf(c) == {u \in 1..Len(unmatchedComponents) : unmatchedComponents[u] = c}

RECURSIVE SumOf(_)
SumOf(xs) == IF xs = <<>> THEN Num(0) ELSE Add(Head(xs), SumOf(Tail(xs)))

\* x is the arithmetic mean of the numbers xs, and 0 when there are none
IsMeanOf(x, xs) ==
  IF Len(xs) = 0 THEN x = Num(0)
  ELSE ~IsNaN(x) /\ Mul(x, Num(Len(xs))) = SumOf(xs)

TopKDone == service = "figmaService" /\ pc = "done"

\* C1: in the exclusive matcher no node id is the chosen match of two different
\* components, and a chosen node is out of the pool from then on
C1_NoNodeChosenTwice ==
  service = "figma" =>
    /\ \A i, j \in 1..Len(matches) :
         i # j => matches[i].figmaNode.id # matches[j].figmaNode.id
    /\ \A i \in 1..Len(matches) : matches[i].figmaNode.id \notin NodeIds(unmatchedNodes)

\* two equal components were both matched, the second to a node it likes less
C1_Witness ==
  /\ service = "figma"
  /\ Len(matches) = 2
  /\ componentBounds[1] = componentBounds[2]
  /\ Gt(matches[1].matchScore, matches[2].matchScore)

\* C2: the confidence of every scored pair is the sum of the four sub-scores
\* clamped to [0,100], also when a width or a height is zero
C2_ConfidenceInRange ==
  (service = "figmaService" /\ pc = "scored") =>
    LET r == matchResult[1]
        c == componentBounds[1]
        n == figmaComponents[1]
        sum == Add(Add(Add(calculateTextScore(c, n), Num(calculateTypeScore(c, n))),
                       Num(calculateVisualScore(c, n))),
                   Mul(calculateSizeScore(c, n), Div(1, 4)))
    IN  /\ Ge(r.confidence, Num(0))
        /\ Ge(Num(100), r.confidence)
        /\ r.confidence = (IF Gt(Num(0), sum) THEN Num(0)
                           ELSE IF Gt(sum, Num(100)) THEN Num(100) ELSE sum)

\* C3: matchType is exact iff confidence > 80, partial iff 60 < confidence <= 80,
\* approximate otherwise
C3_MatchTypeBoundaries ==
  pc = "scored" =>
    LET r == matchResult[1]
    IN  /\ r.matchType = "exact" <=> Gt(r.confidence, Num(80))
        /\ r.matchType = "partial" <=>
             (Gt(r.confidence, Num(60)) /\ Ge(Num(80), r.confidence))
        /\ r.matchType = "approximate" <=>
             ~(Gt(r.confidence, Num(60)))
        /\ r.matchType \in {"exact", "partial", "approximate"}

\* a pair that scores exactly 80
C3_Witness ==
  /\ pc = "scored"
  /\ matchResult[1].confidence = Num(80)
  /\ matchResult[1].matchType = "partial"

\* C4: in a match result a candidate list has at most 3 entries, in non-increasing confidence, and
\* no relevant pair left out of it beats an entry of it
C4_TopThreeSorted ==
  TopKDone =>
    \A m \in 1..Len(componentMatches) :
      LET e == componentMatches[m]
      IN  /\ Len(e.candidates) <= 3
          /\ \A k \in 1..(Len(e.candidates) - 1) :
               Ge(e.candidates[k].confidence, e.candidates[k + 1].confidence)
          /\ \A j \in 1..Len(figmaComponents) :
               LET conf == PairConfidence(e.componentBounds, figmaComponents[j])
               IN  (Gt(conf, Num(20)) /\ ~InList(e, figmaComponents[j])) =>
                     \A k \in 1..Len(e.candidates) : Ge(e.candidates[k].confidence, conf)

\* three candidates kept, a fourth relevant node left out, and the best one not
\* the first in input order
C4_Witness ==
  /\ TopKDone
  /\ \E m \in 1..Len(componentMatches) :
       LET e == componentMatches[m]
       IN  /\ Len(e.candidates) = 3
           /\ e.candidates[1].figmaNode.id > e.candidates[2].figmaNode.id
           /\ Gt(e.candidates[1].confidence, e.candidates[3].confidence)
           /\ \E j \in 1..Len(figmaComponents) :
                /\ ~InList(e, figmaComponents[j])
                /\ Gt(PairConfidence(e.componentBounds, figmaComponents[j]), Num(20))

\* C5 as stated, of a match result: a pair is dropped exactly when its confidence is below 20, so a
\* pair at exactly 20 is a candidate whenever there is room for it
C5_DroppedBelowTwenty ==
  TopKDone =>
    \A c \in 1..(ci - 1) : \A j \in 1..Len(figmaComponents) :
      LET conf == PairConfidence(c, figmaComponents[j])
      IN  /\ \A m \in EntriesOf(c) :
               /\ InList(componentMatches[m], figmaComponents[j]) => Ge(conf, Num(20))
               /\ (Ge(conf, Num(20)) /\ Len(componentMatches[m].candidates) < 3)
                     => InList(componentMatches[m], figmaComponents[j])
          /\ UnmatchedEntriesOf(c) # {} => ~Ge(conf, Num(20))

\* C5 amended, of a match result: a pair is dropped exactly when its confidence is not above 20
C5_DroppedUnlessAboveTwenty ==
  TopKDone =>
    \A c \in 1..(ci - 1) : \A j \in 1..Len(figmaComponents) :
      LET conf == PairConfidence(c, figmaComponents[j])
      IN  /\ \A m \in EntriesOf(c) :
               /\ InList(componentMatches[m], figmaComponents[j]) => Gt(conf, Num(20))
               /\ (Gt(conf, Num(20)) /\ Len(componentMatches[m].candidates) < 3)
                     => InList(componentMatches[m], figmaComponents[j])
          /\ UnmatchedEntriesOf(c) # {} => ~Gt(conf, Num(20))

\* an entry with room for more candidates leaves a pair at exactly 20 out
C5_Witness ==
  /\ TopKDone
  /\ \E m \in 1..Len(componentMatches) : \E j \in 1..Len(figmaComponents) :
       /\ Len(componentMatches[m].candidates) < 3
       /\ ~InList(componentMatches[m], figmaComponents[j])
       /\ PairConfidence(componentMatches[m].componentBounds, figmaComponents[j]) = Num(20)

\* C6: after the call every component is in exactly one of componentMatches and
\* unmatchedComponents, in the second exactly when no pair of it passed the
\* threshold, and a matched component has candidates
C6_ComponentsPartitioned ==
  TopKDone =>
    \A c \in 1..Len(componentBounds) :
      LET anyPassed == \E j \in 1..Len(figmaComponents) :
                         Gt(PairConfidence(c, figmaComponents[j]), Num(20))
      IN  /\ Cardinality(EntriesOf(c)) + Cardinality(UnmatchedEntriesOf(c)) = 1
          /\ UnmatchedEntriesOf(c) # {} <=> ~anyPassed
          /\ \A m \in EntriesOf(c) : Len(componentMatches[m].candidates) > 0

\* a finished call with a matched and an unmatched component
C6_Witness ==
  /\ TopKDone
  /\ Len(componentMatches) > 0
  /\ Len(unmatchedComponents) > 0
  /\ Len(figmaComponents) > 0

\* C7 as stated, for the result of either matcher: the overall figure is the
\* mean of the matched components' rank-1 confidences, 0 if none matched
C7_MeanOfConfidences ==
  pc = "done" =>
    IF service = "figmaService"
    THEN IsMeanOf(overall, [m \in 1..Len(componentMatches) |->
                              componentMatches[m].candidates[1].confidence])
    ELSE IsMeanOf(overall, [m \in 1..Len(matches) |-> matches[m].confidence])

\* C7 amended: overallConfidence (figmaService.ts) is the mean of the rank-1
\* confidences; overallScore (figma.ts) is the mean of the matches' matchScore;
\* both are 0 when nothing matched
C7_MeanOfConfidencesOrScores ==
  pc = "done" =>
    IF service = "figmaService"
    THEN IsMeanOf(overall, [m \in 1..Len(componentMatches) |->
                              componentMatches[m].candidates[1].confidence])
    ELSE IsMeanOf(overall, [m \in 1..Len(matches) |-> matches[m].matchScore])

\* a finished call of figmaService.ts with two matched components of different
\* rank-1 confidence and one unmatched component
C7_Witness ==
  /\ TopKDone
  /\ Len(componentMatches) = 2
  /\ componentMatches[1].candidates[1].confidence
       # componentMatches[2].candidates[1].confidence
  /\ overall # Num(0)

\* C8: every candidate list is the one the component gets against the whole input
\* node list, whatever was removed from unmatchedNodes before its turn, so two
\* equal components get the same candidates
C8_IndependentCandidates ==
  service = "figmaService" =>
    /\ \A m \in 1..Len(componentMatches) :
         LET e == componentMatches[m]
         IN  e.candidates =
               topCandidates(sortByConfidence(
                 scoreCandidates(e.componentBounds, componentBounds[e.componentBounds],
                                 figmaComponents)))
    /\ \A m1, m2 \in 1..Len(componentMatches) :
         LET e1 == componentMatches[m1]
             e2 == componentMatches[m2]
         IN  componentBounds[e1.componentBounds] = componentBounds[e2.componentBounds] =>
               /\ Len(e1.candidates) = Len(e2.candidates)
               /\ \A k \in 1..Len(e1.candidates) :
                    /\ e1.candidates[k].figmaNode = e2.candidates[k].figmaNode
                    /\ e1.candidates[k].confidence = e2.candidates[k].confidence

\* two components have the same rank-1 node, which had left unmatchedNodes before
\* the second one's turn
C8_Witness ==
  /\ service = "figmaService"
  /\ Len(componentMatches) = 2
  /\ componentMatches[1].candidates[1].figmaNode.id
       = componentMatches[2].candidates[1].figmaNode.id
  /\ componentMatches[1].candidates[1].figmaNode.id \notin NodeIds(unmatchedNodes)

Rank1Ids ==
  {componentMatches[m].candidates[1].figmaNode.id : m \in 1..Len(componentMatches)}

NotRank1(node) == node.id \notin Rank1Ids

\* C9: after the call unmatchedNodes is the input nodes, in input order, that are
\* nobody's rank-1 candidate
C9_UnmatchedNodes ==
  TopKDone => unmatchedNodes = SelectSeq(figmaComponents, NotRank1)

\* a node that is only rank 2 or 3 for some component is still in unmatchedNodes
C9_Witness ==
  /\ TopKDone
  /\ \E m \in 1..Len(componentMatches) : \E k \in 2..Len(componentMatches[m].candidates) :
       LET id == componentMatches[m].candidates[k].figmaNode.id
       IN  id \notin Rank1Ids /\ id \in NodeIds(unmatchedNodes)
  /\ Len(unmatchedNodes) < Len(figmaComponents)

TwinIds == {2}

\* C11: scoring reads the name, type, bounds and visual properties of a node and
\* never its id: for the scored node a and a twin b that differs from it only
\* in name (and id), swapping the names swaps the two confidences
C11_SwapNamesSwapsConfidence ==
  (service = "figmaService" /\ pc = "scored") =>
    LET c == componentBounds[1]
        a == figmaComponents[1]
    IN  \A m \in NodeNames, i \in TwinIds :
          LET b == [a EXCEPT !.id = i, !.name = m]
              aSwapped == [a EXCEPT !.name = b.name]
              bSwapped == [b EXCEPT !.name = a.name]
          IN  /\ calculateNodeMatch(1, c, bSwapped).confidence = matchResult[1].confidence
              /\ calculateNodeMatch(1, c, aSwapped).confidence
                   = calculateNodeMatch(1, c, b).confidence

\* a scored pair whose confidence changes with the name of the node
C11_Witness ==
  /\ service = "figmaService"
  /\ pc = "scored"
  /\ ~IsNaN(matchResult[1].confidence)
  /\ \E m \in NodeNames :
       LET other == calculateNodeMatch(1, componentBounds[1],
                                       [figmaComponents[1] EXCEPT !.id = 2, !.name = m])
       IN  /\ ~IsNaN(other.confidence)
           /\ Gt(matchResult[1].confidence, other.confidence)

\* C12: when a width or a height of the component or of the node is zero, the
\* size sub-score is 0 and the scored pair carries no undefined number
C12_SizeScoreZeroOnZeroDimension ==
  (service = "figmaService" /\ pc = "scored") =>
    LET c == componentBounds[1]
        n == figmaComponents[1]
    IN  (c.width = 0 \/ c.height = 0 \/ n.width = 0 \/ n.height = 0) =>
          /\ calculateSizeScore(c, n) = Num(0)
          /\ ~IsNaN(matchResult[1].matchScore)

\* the components of the sections, one section after the other
RECURSIVE FlattenSections(_)
FlattenSections(secs) ==
  IF secs = <<>> THEN <<>> ELSE Head(secs).components \o FlattenSections(Tail(secs))

\* the sections that hold the node
SectionsOf(node) ==
  {s \in 1..Len(sections) :
     \E j \in 1..Len(sections[s].components) : sections[s].components[j] = node}

\* C13: identifyVerticalSections partitions its input: every node is in exactly
\* one returned section, no section is empty, and one node or more gives one
\* section or more
C13_SectionsPartitionInput ==
  pc = "analysed" =>
    /\ \A k \in 1..Len(figmaComponents) : Cardinality(SectionsOf(figmaComponents[k])) = 1
    /\ Len(FlattenSections(sections)) = Len(figmaComponents)
    /\ \A s \in 1..Len(sections) : sections[s].components # <<>>
    /\ Len(figmaComponents) >= 1 => Len(sections) >= 1

\* an unsorted input that falls into two sections, one of them with two nodes
C13_Witness ==
  /\ pc = "analysed"
  /\ figmaComponents # sortedByY
  /\ Len(sections) = 2
  /\ \E s \in 1..2 : Len(sections[s].components) = 2

\* a section was closed right after the i-th sorted component
ClosedAfter(i) ==
  \E s \in 1..Len(sections) : Len(FlattenSections(SubSeq(sections, 1, s))) = i

\* the top y of the components of each section
SectionTops ==
  [s \in 1..Len(sections) |->
     [j \in 1..Len(sections[s].components) |-> sections[s].components[j].y]]

SortedTops == [k \in 1..Len(sortedByY) |-> sortedByY[k].y]

\* the gap between the bottom edge of the i-th sorted component and the top of the next
GapBelow(i) == sortedByY[i + 1].y - (sortedByY[i].y + sortedByY[i].height)

\* C14 as stated: the sections follow the sorted order, a section is closed after
\* a component exactly when the gap to the next one exceeds 50, and nodes at
\* y = 0, 5, 8, 120, 124 always give the two sections {0,5,8} and {120,124}
C14_ScenarioTwoSections ==
  pc = "analysed" =>
    /\ FlattenSections(sections) = sortedByY
    /\ \A i \in 1..(Len(sortedByY) - 1) : ClosedAfter(i) <=> GapBelow(i) > sectionGap
    /\ SortedTops = ScenarioYs => SectionTops = <<<<0, 5, 8>>, <<120, 124>>>>

\* C14 amended: the gap is taken from the bottom edge (y + height) of the
\* component to the top of the next one, and nodes at y = 0, 5, 8, 120, 124 give
\* the two sections {0,5,8} and {120,124} exactly when the bottom edge of the
\* node at y = 8 is more than 50 above y = 120; otherwise they give one section
C14_ClosesOnGapBelow ==
  pc = "analysed" =>
    /\ FlattenSections(sections) = sortedByY
    /\ \A i \in 1..(Len(sortedByY) - 1) : ClosedAfter(i) <=> GapBelow(i) > sectionGap
    /\ SortedTops = ScenarioYs =>
         SectionTops = (IF sortedByY[3].y + sortedByY[3].height + sectionGap < sortedByY[4].y
                        THEN <<<<0, 5, 8>>, <<120, 124>>>>
                        ELSE <<ScenarioYs>>)

\* the five nodes of the scenario, given out of order, in two sections
C14_Witness ==
  /\ pc = "analysed"
  /\ SortedTops = ScenarioYs
  /\ figmaComponents # sortedByY
  /\ SectionTops = <<<<0, 5, 8>>, <<120, 124>>>>

ChildIds(group) == {group.children[k].id : k \in 1..Len(group.children)}

AllChildIds(groupList) == UNION {ChildIds(groupList[g]) : g \in 1..Len(groupList)}

\* the classifier call fails, the status is not OK, or the reply cannot be
\* read, parsed or validated
ReplyFails ==
  \/ reply.fetch = "rejected"
  \/ ~reply.ok
  \/ reply.body \in {"unreadable", "noChoices"}
  \/ reply.content \in {"unparsable", "null"}
  \/ /\ reply.hasGroups
     /\ \/ ~reply.groupsIsArray
        \/ \E k \in 1..Len(reply.groups) : ~reply.groups[k].childrenIsArray

\* the k-th proposed group names no node of the document
ArrivedEmpty(k) ==
  \A j \in 1..Len(reply.groups[k].children) :
    reply.groups[k].children[j] \notin NodeIds(figmaComponents)

\* C16: a group that arrived without children is filled with nodes that are
\* children of no other group, and the nodes it takes leave the pool
C16_AutoMapOnlyUnassigned ==
  pc = "automap" =>
    \A i \in 1..(gi - 1) :
      ArrivedEmpty(i) =>
        /\ \A j \in 1..Len(groups) :
             j # i => ChildIds(groups[i]) \cap ChildIds(groups[j]) = {}
        /\ ChildIds(groups[i]) \cap NodeIds(availableComponents) = {}

\* the category createFallbackResult is to infer from the type of a node
InferredCategory(type) ==
  CASE type = FigmaType("Text") -> "text"
    [] type \in {FigmaType("Rectangle"), FigmaType("Frame"), FigmaType("Group")} -> "container"
    [] OTHER -> "other"

\* the degenerate partition: one group per node up to the limit of 15 groups,
\* the category taken from the node, the rest ungrouped, no node on both sides
OneToOne(result) ==
  /\ Len(result.groups) = IntMin(15, Len(figmaComponents))
  /\ \A k \in 1..Len(result.groups) :
       /\ result.groups[k].children = <<figmaComponents[k]>>
       /\ result.groups[k].type = InferredCategory(figmaComponents[k].type)
  /\ result.ungroupedNodes = SubSeq(figmaComponents, 16, Len(figmaComponents))
  /\ AllChildIds(result.groups) \cap NodeIds(result.ungroupedNodes) = {}
  /\ AllChildIds(result.groups) \cup NodeIds(result.ungroupedNodes) = NodeIds(figmaComponents)

C18_FailureReturnsFallback ==
  ReplyFails =>
    /\ pc \in {"fetch", "status", "json", "parse", "validate", "catch", "done"}
    /\ pc = "done" => groupingResult = createFallbackResult(figmaComponents)

\* the reply was read and parsed, one of its groups could not be validated
C18_Witness ==
  /\ pc = "done"
  /\ reply.content = "object"
  /\ reply.body = "data"
  /\ \E k \in 1..Len(reply.groups) : ~reply.groups[k].childrenIsArray
  /\ groupingResult = createFallbackResult(figmaComponents)
  /\ figmaComponents # <<>>

\* C19: ungroupedNodes holds exactly the input nodes whose id no returned group
\* has among its children, and groupedNodes + |ungroupedNodes| = totalNodes
C19_UngroupedAreTheRest ==
  pc = "done" =>
    /\ NodeIds(groupingResult.ungroupedNodes)
         = NodeIds(figmaComponents) \ AllChildIds(groupingResult.groups)
    /\ Len(groupingResult.ungroupedNodes)
         = Cardinality(NodeIds(groupingResult.ungroupedNodes))
    /\ groupingResult.groupedNodes + Len(groupingResult.ungroupedNodes)
         = groupingResult.totalNodes
    /\ groupingResult.totalNodes = Len(figmaComponents)

\* a validated reply of two groups with children, one of them filled by the
\* auto-mapping, and nodes left ungrouped
C19_Witness ==
  /\ pc = "done"
  /\ ~ReplyFails
  /\ Len(groupingResult.groups) = 2
  /\ ArrivedEmpty(1)
  /\ ~ArrivedEmpty(2)
  /\ groupingResult.groups[1].children # <<>>
  /\ groupingResult.groupedNodes >= 2
  /\ groupingResult.ungroupedNodes # <<>>

\* C20: the confidence of a returned group is the proposed confidence clamped to
\* [0.1, 1.0] (0 gives 0.1), and the default only when none was proposed
C20_ConfidenceClamped ==
  (pc = "done" /\ ~ReplyFails /\ reply.hasGroups) =>
    \A k \in 1..Len(reply.groups) :
      LET c == reply.groups[k].confidence
          given == groupingResult.groups[k].confidence
      IN  IF reply.groups[k].hasConfidence
          THEN given = (IF Gt(Div(1, 10), c) THEN Div(1, 10)
                           ELSE IF Gt(c, Num(1)) THEN Num(1) ELSE c)
          ELSE Ge(given, Div(1, 2)) /\ Ge(Div(7, 10), given)

\* one of the four strategies selects comp for the (validated) group
Selected(group, comp) ==
  \/ keywordHit(groupKeywords(group), comp)
  \/ positionHit(toLowerCase(group.name), group, comp,
                 topThreshold(figmaComponents), middleThreshold(figmaComponents))
  \/ typeHit(toLowerCase(group.name), group, comp)
  \/ proximityHit(group, comp)

\* C21: the returned groups are the proposed groups, one for one and in the
\* order proposed, and a proposed group that arrived without children and for
\* which no strategy selects any node is returned with empty children
C21_EmptyGroupsKept ==
  (pc = "done" /\ ~ReplyFails /\ reply.hasGroups) =>
    /\ Len(groupingResult.groups) = Len(reply.groups)
    /\ \A k \in 1..Len(reply.groups) :
         LET proposed == reply.groups[k]
             kept == groupingResult.groups[k]
         IN  /\ proposed.id # <<>> => kept.id = proposed.id
             /\ proposed.name # <<>> => kept.name = proposed.name
             /\ proposed.type # "" => kept.type = proposed.type
             /\ (ArrivedEmpty(k)
                   /\ \A n \in 1..Len(figmaComponents) : ~Selected(kept, figmaComponents[n]))
                  => kept.children = <<>>

\* two proposed groups over a document that is not empty: the first is
\* returned without children, the second with the children it arrived with
C21_Witness ==
  /\ pc = "done"
  /\ ~ReplyFails
  /\ reply.hasGroups
  /\ Len(groupingResult.groups) = 2
  /\ figmaComponents # <<>>
  /\ ArrivedEmpty(1)
  /\ groupingResult.groups[1].children = <<>>
  /\ groupingResult.groups[2].children # <<>>

\* the reply proposes the one group "Header Section", without children, over
\* three nodes at y = 10, 50 and 700 whose bounding box is 800 high
HeaderScenario ==
  /\ ~ReplyFails
  /\ reply.hasGroups
  /\ Len(reply.groups) = 1
  /\ reply.groups[1].name = Sample("HeaderSection")
  /\ reply.groups[1].children = <<>>
  /\ Len(figmaComponents) = 3
  /\ {figmaComponents[n].y : n \in 1..3} = {10, 50, 700}
  /\ \A n \in 1..3 : figmaComponents[n].y + figmaComponents[n].height <= 810
  /\ \E n \in 1..3 : figmaComponents[n].y + figmaComponents[n].height = 810

\* C22: in the header scenario the nodes at y = 10 and y = 50 lie in the top
\* band (y < minY + height / 4 = 210), are selected by the position strategy
\* and become children; the node at y = 700 is a child only if the keyword,
\* the type or the proximity strategy selects it
C22_HeaderScenario ==
  (pc = "done" /\ HeaderScenario) =>
    LET group == groupingResult.groups[1]
    IN  \A n \in 1..3 :
          LET node == figmaComponents[n]
          IN  /\ node.y \in {10, 50} =>
                   /\ 4 * node.y < 4 * 10 + 800
                   /\ positionHit(toLowerCase(group.name), group, node,
                                  topThreshold(figmaComponents),
                                  middleThreshold(figmaComponents))
                   /\ node.id \in ChildIds(group)
              /\ (node.y = 700 /\ node.id \in ChildIds(group)) =>
                   \/ keywordHit(groupKeywords(group), node)
                   \/ typeHit(toLowerCase(group.name), group, node)
                   \/ proximityHit(group, node)

\* the header scenario with a plain text at y = 700: the two upper nodes are
\* the children, the node at y = 700 is left ungrouped
C22_Witness ==
  /\ pc = "done"
  /\ HeaderScenario
  /\ Len(groupingResult.groups[1].children) = 2
  /\ \E n \in 1..3 :
       /\ figmaComponents[n].y = 700
       /\ groupingResult.ungroupedNodes = <<figmaComponents[n]>>

\* the scored pair is the submit-button scenario
IsSubmitScenario ==
  /\ componentBounds[1].name = Sample("SubmitButton")
  /\ componentBounds[1].width = 120
  /\ componentBounds[1].height = 40
  /\ figmaComponents[1].name = Sample("SubmitButton")
  /\ figmaComponents[1].type = FigmaType("Instance")
  /\ figmaComponents[1].width = 118
  /\ figmaComponents[1].height = 42

\* C23: the submit-button scenario scores above 80 and is an exact match
C23_SubmitScenarioExact ==
  (pc = "scored" /\ IsSubmitScenario) =>
    /\ Gt(matchResult[1].confidence, Num(80))
    /\ matchResult[1].matchType = "exact"

\* the score of comp for the group: 3 for the keyword strategy, 2 for the
\* position, 2 for the type, 1 for the proximity, 1 for a size above 20 x 10
Score(group, comp) ==
    (IF keywordHit(groupKeywords(group), comp) THEN 3 ELSE 0)
  + (IF positionHit(toLowerCase(group.name), group, comp,
                    topThreshold(figmaComponents), middleThreshold(figmaComponents))
     THEN 2 ELSE 0)
  + (IF typeHit(toLowerCase(group.name), group, comp) THEN 2 ELSE 0)
  + (IF proximityHit(group, comp) THEN 1 ELSE 0)
  + (IF comp.width > 20 /\ comp.height > 10 THEN 1 ELSE 0)

\* the children of the group are candidates of the pool, and none of them
\* scores below a candidate that was left out
TopScoring(group, kids, pool) ==
  /\ \A k \in 1..Len(kids) :
       /\ \E n \in 1..Len(pool) : pool[n] = kids[k]
       /\ Selected(group, kids[k])
       /\ \A j \in 1..Len(kids) : j # k => kids[j].id # kids[k].id
  /\ \A k \in 1..Len(kids) : \A n \in 1..Len(pool) :
       (Selected(group, pool[n]) /\ pool[n].id \notin {kids[j].id : j \in 1..Len(kids)})
         => Score(group, kids[k]) >= Score(group, pool[n])

\* the number of nodes of the pool that some strategy selects for the group
Candidates(group, pool) ==
  Cardinality({pool[n].id : n \in {m \in 1..Len(pool) : Selected(group, pool[m])}})

\* C24 as stated: the first empty group gets the highest-scoring candidates,
\* and the limit N follows the category: when a container group was cut at its
\* limit, a button or text group of the same reply has fewer members
C24_TopNByCategory ==
  (pc = "done" /\ ~ReplyFails /\ reply.hasGroups /\ Len(reply.groups) >= 1) =>
    LET returned1 == groupingResult.groups[1]
    IN  /\ TopScoring(returned1, returned1.children, figmaComponents)
        /\ Len(reply.groups) = 2 =>
             LET returned2 == groupingResult.groups[2]
             IN  (/\ returned1.type = "container"
                  /\ Candidates(returned1, figmaComponents) > Len(returned1.children)
                  /\ returned2.type \in {"button", "text"})
                   => Len(returned2.children) < Len(returned1.children)

\* the limit as the name of the group gives it
MemberLimit(group) ==
  LET groupName == toLowerCase(group.name)
  IN  IF includes(groupName, <<"s","e","c","t","i","o","n">>) THEN 8
      ELSE IF includes(groupName, <<"b","u","t","t","o","n">>) THEN 3
      ELSE IF includes(groupName, <<"t","e","x","t">>) THEN 5
      ELSE 4

\* C24 amended: every turn of the auto-mapping on an empty group gives it the
\* N highest-scoring candidates of the pool, best first, where N follows the
\* name of the group (8 with "section", else 3 with "button", else 5 with
\* "text", else 4) and not its category
C24_TopNByName ==
  [][(pc = "automap" /\ gi <= Len(groups) /\ gi' = gi + 1 /\ groups[gi].children = <<>>) =>
       LET group == groups[gi]
           kids == groups'[gi].children
       IN  /\ TopScoring(group, kids, availableComponents)
           /\ Len(kids) = IntMin(MemberLimit(group), Candidates(group, availableComponents))
           /\ \A k \in 1..(Len(kids) - 1) :
                Score(group, kids[k]) >= Score(group, kids[k + 1])]_vars

\* a first group that was cut at its limit, its children of different scores
C24_Witness ==
  /\ pc = "automap"
  /\ gi = 2
  /\ Candidates(groups[1], figmaComponents) > Len(groups[1].children)
  /\ Len(groups[1].children) = MemberLimit(groups[1])
  /\ \E k \in 1..Len(groups[1].children) :
       Score(groups[1], groups[1].children[k]) < Score(groups[1], groups[1].children[1])

\* the number of the four indicators on which the observed style of the
\* component and the declared attribute of the node agree
IndicatorMatches(component, node) ==
  IF ~component.element.present THEN 0
  ELSE (IF component.element.borderRadius > 0 /\ Truthy(node.cornerRadius) THEN 1 ELSE 0)
     + (IF component.element.backgroundColor \notin {"rgba(0, 0, 0, 0)", "transparent"}
           /\ Truthy(node.fills) THEN 1 ELSE 0)
     + (IF component.element.boxShadow # "none" /\ Truthy(node.effects) THEN 1 ELSE 0)
     + (IF component.element.border # "none" /\ Truthy(node.strokes) THEN 1 ELSE 0)

\* C25: the visual sub-score of the scored pair is 5 for each indicator on
\* which style and declared attribute match, at most 20, and an indicator the
\* node does not declare adds nothing
C25_VisualScoreCountsMatches ==
  pc = "scored" =>
    LET visualScore == calculateVisualScore(componentBounds[1], figmaComponents[1])
    IN  /\ visualScore = 5 * IndicatorMatches(componentBounds[1], figmaComponents[1])
        /\ visualScore <= 20

\* how often the entry appears among the reasons of the scored pair
ReasonCount(entry) ==
  Cardinality({k \in 1..Len(matchResult[1].reasons) : matchResult[1].reasons[k] = entry})

\* the mean of the min / max ratios of width and height is above one half
SizeAboveBreakEven(component, node) ==
  LET wmin == IntMin(component.width, node.width)
      wmax == IntMax(component.width, node.width)
      hmin == IntMin(component.height, node.height)
      hmax == IntMax(component.height, node.height)
  IN  /\ wmax > 0
      /\ hmax > 0
      /\ wmin * hmax + hmin * wmax > wmax * hmax

\* C26: the reasons of a scored pair hold one entry for each sub-score above
\* its threshold (text > 20, type > 15, visual > 10, size above break-even),
\* and nothing else
C26_ReasonsFollowThresholds ==
  pc = "scored" =>
    LET component == componentBounds[1]
        node == figmaComponents[1]
        Expect(exceeds) == IF exceeds THEN 1 ELSE 0
        text == Expect(Gt(calculateTextScore(component, node), Num(20)))
        type == Expect(calculateTypeScore(component, node) > 15)
        visual == Expect(calculateVisualScore(component, node) > 10)
        size == Expect(SizeAboveBreakEven(component, node))
    IN  /\ ReasonCount("Similar text content") = text
        /\ ReasonCount("Similar type") = type
        /\ ReasonCount("Similar visual features") = visual
        /\ ReasonCount("Similar size") = size
        /\ Len(matchResult[1].reasons) = text + type + visual + size

\* a pair whose sizes are exactly at break-even, with the text and the type
\* above their thresholds and the visual score below
C26_Witness ==
  /\ pc = "scored"
  /\ matchResult[1].reasons = <<"Similar text content", "Similar type">>
  /\ Mul(calculateSizeScore(componentBounds[1], figmaComponents[1]), Div(1, 4)) = Num(5)
  /\ calculateVisualScore(componentBounds[1], figmaComponents[1]) = 10

\* the two coordinates round to the same multiple of the tolerance of 10:
\* both lie in [10 m - 5, 10 m + 5) for one m
RoundAlike(a, b) ==
  \E m \in -20..20 : /\ 10 * m - 5 <= a /\ a < 10 * m + 5
                      /\ 10 * m - 5 <= b /\ b < 10 * m + 5

\* buckets: the returned groups; along / across: the coordinates of a node on
\* the chosen and on the other axis, given as functions of the node index
Aligned(buckets, along, across) ==
  LET Holds(b, i) == \E k \in 1..Len(buckets[b]) : buckets[b][k] = figmaComponents[i]
  IN  /\ \A b \in 1..Len(buckets) :
           /\ Len(buckets[b]) >= 2
           /\ \A k \in 1..Len(buckets[b]) :
                \E i \in 1..Len(figmaComponents) : buckets[b][k] = figmaComponents[i]
           /\ \A k \in 1..(Len(buckets[b]) - 1) :
                \E i, j \in 1..Len(figmaComponents) :
                  /\ buckets[b][k] = figmaComponents[i]
                  /\ buckets[b][k + 1] = figmaComponents[j]
                  /\ across[i] <= across[j]
      /\ \A i, j \in 1..Len(figmaComponents) :
           i # j => (RoundAlike(along[i], along[j])
                       <=> \E b \in 1..Len(buckets) : Holds(b, i) /\ Holds(b, j))
      /\ \A i \in 1..Len(figmaComponents) :
           Cardinality({<<b, k>> \in (1..Len(buckets)) \X (1..Len(figmaComponents)) :
                          k <= Len(buckets[b]) /\ buckets[b][k] = figmaComponents[i]}) <= 1

\* C27: two nodes share a returned group exactly when their coordinate on the
\* chosen axis rounds to the same multiple of the tolerance, every returned
\* group has 2 members or more, no node is returned twice, and each group is
\* in ascending order on the other axis
C27_AlignmentGroups ==
  pc # "clusters" =>
    LET xs == [i \in 1..Len(figmaComponents) |-> figmaComponents[i].x]
        ys == [i \in 1..Len(figmaComponents) |-> figmaComponents[i].y]
    IN  /\ Aligned(alignments.verticalGroups, ys, xs)
        /\ Aligned(alignments.horizontalGroups, xs, ys)

\* three nodes whose y rounds to 60, the last one leftmost: it comes first in
\* the vertical group; x = -5 rounds to 0 and joins the others in the
\* horizontal group
C27_Witness ==
  /\ pc # "clusters"
  /\ Len(figmaComponents) = 3
  /\ figmaComponents[3].x = -5
  /\ Len(alignments.verticalGroups) = 1
  /\ alignments.verticalGroups[1]
       = <<figmaComponents[3], figmaComponents[1], figmaComponents[2]>>
  /\ Len(alignments.horizontalGroups) = 1
  /\ Len(alignments.horizontalGroups[1]) = 3

\* the entries of the panel's copy of the result
PanelMatches ==
  IF boundsMatchingResults = <<>> THEN <<>> ELSE boundsMatchingResults[1].componentMatches

\* the confirmed node is the node of one of the entry's own candidates
ConfirmedAmongOwn(cm) ==
  cm.confirmedMatch # <<>> =>
    \E j \in 1..Len(cm.candidates) :
      cm.candidates[j].figmaNode.id = cm.confirmedMatch[1].figmaNode.id

\* a step changes confirmedMatch of no entry but the one the panel shows
OnlyShownChanges ==
  \A k \in 1..Len(PanelMatches) :
    (boundsMatchingResults' # <<>> /\ PanelMatches'[k].confirmedMatch # PanelMatches[k].confirmedMatch)
      => (selectedComponentId # <<>> /\ k = findByName(PanelMatches, selectedComponentId[1]))

\* C28: after any sequence of candidate clicks every confirmedMatch that is set
\* is one of its component's own candidates, and a click sets confirmedMatch of
\* the selected component only, also when several rendered components carry
\* one name.
C28_ConfirmedOwnCandidate ==
  /\ [](\A k \in 1..Len(PanelMatches) : ConfirmedAmongOwn(PanelMatches[k]))
  /\ [][OnlyShownChanges]_vars

\* figma.ts: the match score of the pair (component at turn c, node)
GreedyScore(c, node) == greedyScorePair(c, componentBounds[c], node).matchScore

\* a step that adds a match takes, from the pool before the step, a node that
\* no node of the pool outscores and that no earlier node of the pool equals
ChoosesHighestEarliest ==
  Len(matches') > Len(matches) =>
    LET chosen == matches'[Len(matches')]
        pool == unmatchedNodes
    IN  \E k \in 1..Len(pool) :
          /\ pool[k] = chosen.figmaNode
          /\ chosen.matchScore = GreedyScore(ci, pool[k])
          /\ unmatchedNodes' = SubSeq(pool, 1, k - 1) \o SubSeq(pool, k + 1, Len(pool))
          /\ \A j \in 1..Len(pool) :
               /\ ~Gt(GreedyScore(ci, pool[j]), chosen.matchScore)
               /\ j < k => ~Ge(GreedyScore(ci, pool[j]), chosen.matchScore)

\* the chosen nodes and unmatchedNodes share no node and are the input nodes
ChosenAndLeftOverPartition ==
  LET chosen == {matches[i].figmaNode : i \in 1..Len(matches)}
      left == {unmatchedNodes[i] : i \in 1..Len(unmatchedNodes)}
  IN  /\ chosen \cap left = {}
      /\ chosen \cup left = {figmaComponents[i] : i \in 1..Len(figmaComponents)}
      /\ Len(matches) + Len(unmatchedNodes) = Len(figmaComponents)

\* C29: in the exclusive matcher the node chosen for a component has the highest
\* match score among the nodes in the pool at that component's turn, ties going
\* to the node earliest in the pool; after the run the chosen nodes and
\* unmatchedNodes are disjoint and together are exactly the input nodes.
C29_HighestScoreEarliestTie ==
  /\ [][service = "figma" => ChoosesHighestEarliest]_vars
  /\ []((service = "figma" /\ pc = "done") => ChosenAndLeftOverPartition)

\* a finished run in which a node was chosen ahead of a later node of the same
\* score, and that one was left over
C29_Witness ==
  /\ service = "figma"
  /\ pc = "done"
  /\ matches # <<>>
  /\ \E i \in 1..Len(unmatchedNodes) :
       /\ unmatchedNodes[i].id > matches[1].figmaNode.id
       /\ GreedyScore(matches[1].componentBounds, unmatchedNodes[i]) = matches[1].matchScore

\* every component and every node of the run has positive width and height
AllPositive ==
  /\ \A i \in 1..Len(componentBounds) :
       componentBounds[i].width > 0 /\ componentBounds[i].height > 0
  /\ \A i \in 1..Len(figmaComponents) :
       figmaComponents[i].width > 0 /\ figmaComponents[i].height > 0

\* every (component, node) pair of the run scores more than 0.3
AllPairsAboveThreshold ==
  \A c \in 1..Len(componentBounds), i \in 1..Len(figmaComponents) :
    Gt(GreedyScore(c, figmaComponents[i]), Div(3, 10))

\* C30: in the exclusive matcher, for components and nodes of positive width
\* and height, a component lands in unmatchedComponents only when the pool is
\* empty at its turn, so the number of matches is min(number of components,
\* number of nodes): every pair scores above the threshold 0.3.
C30_UnmatchedOnlyOnEmptyPool ==
  /\ []((service = "figma" /\ AllPositive) => AllPairsAboveThreshold)
  /\ [][(service = "figma" /\ AllPositive
           /\ Len(unmatchedComponents') > Len(unmatchedComponents))
          => unmatchedNodes = <<>>]_vars
  /\ []((service = "figma" /\ AllPositive /\ pc = "done")
          => Len(matches) = IntMin(Len(componentBounds), Len(figmaComponents)))

\* a finished run over positive sizes: the pair that is alike in nothing was
\* matched, and a later component found the pool empty
C30_Witness ==
  /\ service = "figma"
  /\ AllPositive
  /\ pc = "done"
  /\ unmatchedComponents # <<>>
  /\ unmatchedNodes = <<>>
  /\ \E i \in 1..Len(matches) : ~Gt(matches[i].matchScore, Num(30))

====
